---- MODULE Spec2Model ----
(***************************************************************************)
(* Dicey Dice: hexagonal dice-territory game.                              *)
(*                                                                         *)
(* The model covers the hex grid (hexagon/coordinate.rs, hexagon/grid.rs), *)
(* the players roster (game/player.rs), the packed tile holding and the    *)
(* board (game/model.rs), the rules engine (game/rules.rs), the breadth    *)
(* first expander (game/generate.rs) and the board steps the session takes *)
(* on a won or lost attack (session.rs).                                   *)
(*                                                                         *)
(* game/rules.rs is an earlier revision than its caller game/generate.rs   *)
(* and the declarations of game/model.rs: it knows neither the mobile flag *)
(* of a holding, nor the captured_dice / moved counters of a board, nor    *)
(* the move_limit parameter, nor the dice counts carried by an Attack, and *)
(* it has no reinforcement.  Every comparison, branch and iteration order  *)
(* that rules.rs does hold is translated from it; the parts it has no line *)
(* for are modelled from the specification in separate definitions         *)
(* (mobile_filter, move_limit_reached, reinforce, turn_over_board,         *)
(* continue_board, game_over_board).                                       *)
(***************************************************************************)
EXTENDS Integers, Sequences, FiniteSets, TLC

\* ------------------------------------------------------------------ bounds
\* Rosters of 2..MaxRoster players are drawn for the starting boards.
MaxRoster == 3
\* Move limits 1..MaxMoveLimit are drawn for a game.
MaxMoveLimit == 2
\* Starting boards hold 1..StartDice dice per tile.
StartDice == 4
\* The most dice on a tile of a four-tile root of the expander.
TreeDice == 2

\* ------------------------------------------------------- program constants
\* game/player.rs:12
MAX_PLAYERS == 8
\* A tile never holds more dice than this (generate_random_grid draws 1..5;
\* the reinforcement cap of the specification).
DiceCap == 5

\* The grid shapes (columns, rows) of the starting boards.
Shapes == {<<1, 1>>, <<2, 1>>, <<3, 1>>, <<2, 2>>}

\* --------------------------------------------------------------- sequences
RECURSIVE Flatten(_)
Flatten(ss) ==
    IF ss = <<>> THEN <<>> ELSE Head(ss) \o Flatten(Tail(ss))

\* ------------------------------------------------- hexagon/coordinate.rs
\* Cube {x, y, z} is the tuple <<x, y, z>>.
\* DIRECTION, indexed by PointDirection + 1.
DIRECTION ==
    << <<-1, 1, 0>>,    \* Left
       <<1, -1, 0>>,    \* Right
       <<0, 1, -1>>,    \* UpLeft
       <<1, 0, -1>>,    \* UpRight
       <<-1, 0, 1>>,    \* DownLeft
       <<0, -1, 1>> >>  \* DownRight

PointDirection ==
    [Left |-> 0, Right |-> 1, UpLeft |-> 2, UpRight |-> 3, DownLeft |-> 4,
     DownRight |-> 5]

Direction(d) == DIRECTION[d + 1]

\* impl ops::Add for Cube
CubeAdd(a, b) == <<a[1] + b[1], a[2] + b[2], a[3] + b[3]>>

\* Cube::neighbours: the six neighbours, clockwise from UpRight.
neighbours(c) ==
    << CubeAdd(c, Direction(PointDirection.UpRight)),
       CubeAdd(c, Direction(PointDirection.Right)),
       CubeAdd(c, Direction(PointDirection.DownRight)),
       CubeAdd(c, Direction(PointDirection.DownLeft)),
       CubeAdd(c, Direction(PointDirection.Left)),
       CubeAdd(c, Direction(PointDirection.UpLeft)) >>

\* Mutant: the third neighbour is the one to the left.
three_neighbours_with_left(c) ==
    << CubeAdd(c, Direction(PointDirection.Right)),
       CubeAdd(c, Direction(PointDirection.DownRight)),
       CubeAdd(c, Direction(PointDirection.Left)) >>

\* Cube::three_neighbours: Right, DownRight, DownLeft.
three_neighbours(c) ==
    << CubeAdd(c, Direction(PointDirection.Right)),
       CubeAdd(c, Direction(PointDirection.DownRight)),
       CubeAdd(c, Direction(PointDirection.DownLeft)) >>

\* ------------------------------------------------------- hexagon/grid.rs
\* A grid is [shape |-> <<columns, rows>>, hexes |-> sequence of
\* <<cube, data>>]; the index HashMap is derived from hexes.
RECURSIVE generate_new_row(_)
generate_new_row(length) ==
    IF length = 0 THEN <<>>
    ELSE IF length = 1 THEN << <<0, 0, 0>> >>
    ELSE LET row == generate_new_row(length - 1)
         IN  Append(row, CubeAdd(row[length - 1], Direction(PointDirection.Right)))

row_down_right_from_row(row) ==
    [i \in 1..Len(row) |-> CubeAdd(row[i], Direction(PointDirection.DownRight))]

row_down_left_from_row(row) ==
    [i \in 1..Len(row) |-> CubeAdd(row[i], Direction(PointDirection.DownLeft))]

\* The row with index `row` (0-based) of Rectangular::generate_with.
RECURSIVE generate_row(_, _)
\* Mutant: every later row is the previous one shifted DownRight.
generate_row_always_down_right(columns, row) ==
    IF row = 0 THEN generate_new_row(columns)
    ELSE row_down_right_from_row(generate_row(columns, row - 1))

generate_row(columns, row) ==
    IF row = 0 THEN generate_new_row(columns)
    ELSE IF row % 2 = 0 THEN row_down_left_from_row(generate_row(columns, row - 1))
    ELSE row_down_right_from_row(generate_row(columns, row - 1))

\* Rectangular::generate_with: the coordinates, row by row.
generate_coordinates(columns, rows) ==
    IF columns = 0 \/ rows = 0 THEN <<>>
    ELSE Flatten([r \in 1..rows |-> generate_row(columns, r - 1)])

\* Rectangular::generate_with(columns, rows, f).to_grid(), f given as the
\* sequence of its results in call order.
generate_with(columns, rows, data) ==
    LET cs == generate_coordinates(columns, rows)
    IN  [shape |-> <<columns, rows>>,
         hexes |-> [i \in 1..Len(cs) |-> <<cs[i], data[i]>>]]

\* Inner::index lookup: the position of the hex at `location`, 0 on a miss.
hex_index(grid, location) ==
    IF \E i \in 1..Len(grid.hexes) : grid.hexes[i][1] = location
    THEN CHOOSE i \in 1..Len(grid.hexes) : grid.hexes[i][1] = location
    ELSE 0

NoHexAtCoordinate == -1

\* Grid::fetch: the data at `location`, or the NoHexAtCoordinate error.
fetch(grid, location) ==
    LET i == hex_index(grid, location)
    IN  IF i = 0 THEN NoHexAtCoordinate ELSE grid.hexes[i][2]

\* ------------------------------------------------------- game/player.rs
\* A player is its number (its display glyph is fixed by the number).
\* Players: current is a 0-based slot index; playing and out are arrays of
\* MAX_PLAYERS slots, 0 standing for None.
EmptySlots == [i \in 1..MAX_PLAYERS |-> 0]

\* Players::new: every slot of `playing` is filled, count is clamped.
PlayersNew(players) ==
    LET n == IF players > MAX_PLAYERS THEN MAX_PLAYERS
             ELSE IF players < 2 THEN 2 ELSE players
    IN  [players |-> n, current |-> 0, count |-> n,
         playing |-> [i \in 1..MAX_PLAYERS |-> i], out |-> EmptySlots]

\* Players::current
current(ps) == ps.playing[ps.current + 1]

\* Mutant: the index is advanced without wrapping to slot 0.
next_without_wrap(ps) ==
    [ps EXCEPT !.current = ps.current + 1]

\* Players::next
next(ps) ==
    [ps EXCEPT !.current = IF ps.current + 1 >= ps.count THEN 0 ELSE ps.current + 1]

\* The shuffle loop of remove_current, from slot i (0-based) upwards.
RECURSIVE shuffle_down(_, _)
shuffle_down(playing, i) ==
    IF i >= MAX_PLAYERS THEN playing
    ELSE IF playing[i + 1] # 0
         THEN shuffle_down([playing EXCEPT ![i] = playing[i + 1], ![i + 1] = 0], i + 1)
         ELSE shuffle_down(playing, i + 1)

\* Mutant: the index stays where it was after the removal.
remove_current_keeps_index(ps) ==
    IF ps.count = 1 THEN ps
    ELSE LET count == ps.count - 1
             player == ps.playing[ps.current + 1]
             taken == [ps.playing EXCEPT ![ps.current + 1] = 0]
         IN  [players |-> ps.players,
              count |-> count,
              out |-> [ps.out EXCEPT ![ps.current + 1] = player],
              playing |-> shuffle_down(taken, ps.current + 1),
              current |-> ps.current]

\* Players::remove_current
remove_current(ps) ==
    IF ps.count = 1 THEN ps
    ELSE LET count == ps.count - 1
             player == ps.playing[ps.current + 1]
             taken == [ps.playing EXCEPT ![ps.current + 1] = 0]
         IN  [players |-> ps.players,
              count |-> count,
              out |-> [ps.out EXCEPT ![ps.current + 1] = player],
              playing |-> shuffle_down(taken, ps.current + 1),
              current |-> IF ps.current >= count THEN 0 ELSE ps.current]

\* -------------------------------------------------------- game/model.rs
\* u8 arithmetic.
Shl(v, k) == (v * (2 ^ k)) % 256
Shr(v, k) == v \div (2 ^ k)

RECURSIVE BitOr(_, _)
BitOr(a, b) ==
    IF a = 0 THEN b
    ELSE IF b = 0 THEN a
    ELSE (IF a % 2 = 1 \/ b % 2 = 1 THEN 1 ELSE 0) + 2 * BitOr(a \div 2, b \div 2)

\* impl Holding for u8: new
u8_new(owner_, dice_, mobile_) ==
    LET player_num == Shr(Shl(owner_ % 256, 5), 5)
        d == Shr(Shl(dice_, 5), 2)
        m == Shr(Shl(IF mobile_ THEN 1 ELSE 0, 7), 1)
    IN  BitOr(BitOr(m, d), player_num)

\* impl Holding for u8: owner, dice, mobile
owner(h) == Shr(Shl(h, 5), 5)
dice(h) == Shr(Shl(Shr(h, 3), 5), 5)
mobile(h) == Shr(Shl(h, 1), 7) = 1

\* Board::new
BoardNew(players, grid, captured_dice, moved) ==
    [players |-> players, grid |-> grid, captured_dice |-> captured_dice,
     moved |-> moved]

\* Action: <<"Attack", from, to, attacker_dice, defender_dice>> or <<"Pass">>.
Attack(from, to, ad, dd) == <<"Attack", from, to, ad, dd>>
Pass == <<"Pass">>
IsAttack(action) == action[1] = "Attack"

\* Consequence: <<kind, board>>; Consequence::board.
Consequence(kind, board) == <<kind, board>>
ConsequenceBoard(consequence) == consequence[2]

\* Option<Score>: None is the empty tuple, Some(s) the tuple of s.
None == <<>>
Some(s) == <<s>>

\* f64: the values the program computes are 0.0, 1.0 and held / tiles; a
\* value is held as the reduced fraction <<numerator, denominator>>, which
\* is equal and ordered exactly as the correctly rounded quotients are.
RECURSIVE Gcd(_, _)
Gcd(a, b) == IF b = 0 THEN a ELSE Gcd(b, a % b)

f64_div(a, b) == <<a \div Gcd(a, b), b \div Gcd(a, b)>>

f64_partial_cmp(x, y) ==
    IF x[1] * y[2] < y[1] * x[2] THEN "Less"
    ELSE IF x[1] * y[2] > y[1] * x[2] THEN "Greater"
    ELSE "Equal"

\* Score::new, Score::increment_distance
ScoreNew(destination, distance) ==
    [destination |-> destination, distance |-> distance]

increment_distance(score) == ScoreNew(score.destination, score.distance + 1)

\* Mutant: at equal destination the distances are compared as they are.
partial_cmp_farther_is_better(self, other) ==
    LET ordering == f64_partial_cmp(self.destination, other.destination)
    IN  IF ordering = "Equal"
        THEN IF self.distance > other.distance THEN "Greater"
             ELSE IF self.distance < other.distance THEN "Less"
             ELSE "Equal"
        ELSE ordering

\* impl PartialOrd for Score: partial_cmp (no destination is NaN).
partial_cmp(self, other) ==
    LET ordering == f64_partial_cmp(self.destination, other.destination)
    IN  IF ordering = "Equal"
        THEN IF self.distance > other.distance THEN "Less"
             ELSE IF self.distance < other.distance THEN "Greater"
             ELSE "Equal"
        ELSE ordering

\* Choice::new: the score cell starts empty.
ChoiceNew(action, consequence) ==
    [action |-> action, consequence |-> consequence, score |-> None]

\* Tree::new, Tree::fetch_choices (None when the board is no key).
TreeNew(root, map) == [root |-> root, states |-> map]

fetch_choices(t, b) == IF b \in DOMAIN t.states THEN Some(t.states[b]) ELSE None

\* Inner::fork_with / Grid::fork_with: the layout is kept and the tile at
\* position i holds forked[i], the value of the closure at that tile.
fork_with(grid, forked) ==
    [grid EXCEPT !.hexes =
        [i \in 1..Len(grid.hexes) |-> <<grid.hexes[i][1], forked[i]>>]]

\* Grid::len (called by stalemate): the number of tiles.
grid_len(grid) == Len(grid.hexes)

\* --------------------------------------------------------- game/rules.rs
\* Mutant: a frozen tile may move like any other.
mobile_filter_ignored(hold) == TRUE

\* The mobile flag is younger than rules.rs: a frozen tile (mobile = false)
\* is barred from moving (game/model.rs:78, session.rs:284).
mobile_filter(hold) == mobile(hold)

\* Mutant: a tile attacks an enemy neighbour of equal dice too, whatever
\* its own dice.
attacks_from_tile_equal(grid, player, i) ==
    LET coordinate == grid.hexes[i][1]
        hold == grid.hexes[i][2]
        ns == neighbours(coordinate)
        one(neighbour) ==
            LET d == fetch(grid, neighbour)
            IN  IF d = NoHexAtCoordinate THEN <<>>
                ELSE IF owner(d) # player
                     THEN IF dice(d) <= dice(hold)
                          THEN <<Attack(coordinate, neighbour, dice(hold), dice(d))>>
                          ELSE <<>>
                     ELSE <<>>
    IN  Flatten([k \in 1..Len(ns) |-> one(ns[k])])

\* The attacks of the tile at position i: its neighbours in clockwise
\* order, the misses ignored, an enemy tile with fewer dice attacked.
attacks_from_tile(grid, player, i) ==
    LET coordinate == grid.hexes[i][1]
        hold == grid.hexes[i][2]
        ns == neighbours(coordinate)
        one(neighbour) ==
            LET d == fetch(grid, neighbour)
            IN  IF d = NoHexAtCoordinate THEN <<>>
                ELSE IF owner(d) # player
                     THEN IF dice(d) < dice(hold)
                          THEN <<Attack(coordinate, neighbour, dice(hold), dice(d))>>
                          ELSE <<>>
                     ELSE <<>>
    IN  Flatten([k \in 1..Len(ns) |-> one(ns[k])])

\* Mutant: the owner of the attacking tile is not looked at.
all_legal_attacks_from_any_owner(grid, player) ==
    Flatten([i \in 1..Len(grid.hexes) |->
        IF mobile_filter(grid.hexes[i][2])
        THEN attacks_from_tile(grid, player, i)
        ELSE <<>>])

\* all_legal_attacks_from: fold over the tiles in grid order.
all_legal_attacks_from(grid, player) ==
    Flatten([i \in 1..Len(grid.hexes) |->
        IF owner(grid.hexes[i][2]) = player /\ mobile_filter(grid.hexes[i][2])
        THEN attacks_from_tile(grid, player, i)
        ELSE <<>>])

\* Mutant: the die left behind is also counted on the captured tile.
attacking_move_keeps_dice(grid, from, to) ==
    LET h == fetch(grid, from)
        f(cube, hold) ==
            IF cube = from THEN u8_new(owner(h), 1, mobile(hold))
            ELSE IF cube = to THEN u8_new(owner(h), dice(h), mobile(hold))
            ELSE hold
    IN  fork_with(grid, [i \in 1..Len(grid.hexes) |-> f(grid.hexes[i][1], grid.hexes[i][2])])

\* attacking_move: all dice but one leave `from` for `to`.  The mobile flag
\* of each tile is kept (specification: mobile preserved).
attacking_move(grid, from, to) ==
    LET h == fetch(grid, from)
        f(cube, hold) ==
            IF cube = from THEN u8_new(owner(h), 1, mobile(hold))
            ELSE IF cube = to THEN u8_new(owner(h), dice(h) - 1, mobile(hold))
            ELSE hold
    IN  fork_with(grid, [i \in 1..Len(grid.hexes) |-> f(grid.hexes[i][1], grid.hexes[i][2])])

\* grid_from_move
grid_from_move(grid, movement) ==
    IF IsAttack(movement) THEN attacking_move(grid, movement[2], movement[3])
    ELSE grid

\* Mutant: one tile of the current player is enough.
winner_of_some(board) ==
    \E i \in 1..Len(board.grid.hexes) :
        owner(board.grid.hexes[i][2]) = current(board.players)

\* winner: every tile is owned by the current player.
winner(board) ==
    \A i \in 1..Len(board.grid.hexes) :
        owner(board.grid.hexes[i][2]) = current(board.players)

\* Mutant: one tile of another player is enough.
loser_of_some(board) ==
    \E i \in 1..Len(board.grid.hexes) :
        owner(board.grid.hexes[i][2]) # current(board.players)

\* loser: no tile is owned by the current player.
loser(board) ==
    \A i \in 1..Len(board.grid.hexes) :
        owner(board.grid.hexes[i][2]) # current(board.players)

\* The inner test of stalemate: an attack is possible between the tile
\* `hold` and its neighbour `other`.
attack_possible(hold, other) ==
    /\ owner(other) # owner(hold)
    /\ dice(other) > 1 \/ dice(hold) > 1
    /\ dice(other) # dice(hold)

\* Mutant: no board is a stalemate.
stalemate_never(board) == FALSE

\* stalemate: no attack is possible across any edge (three_neighbours scan).
stalemate(board) ==
    IF grid_len(board.grid) < 2 THEN FALSE
    ELSE \A i \in 1..Len(board.grid.hexes) :
            \A k \in 1..3 :
                LET other == fetch(board.grid, three_neighbours(board.grid.hexes[i][1])[k])
                IN  other # NoHexAtCoordinate
                        => ~attack_possible(board.grid.hexes[i][2], other)

Min(a, b) == IF a < b THEN a ELSE b

\* reinforce (specification 4.2): the budget is handed out to the player's
\* tiles in grid order, each tile filled up to DiceCap, the rest dropped;
\* the player's tiles are mobile again (specification 4.5).
RECURSIVE reinforce_from(_, _, _, _)
\* Mutant: a tile takes the whole budget, whatever it holds.
reinforce_from_uncapped(hexes, player, budget, i) ==
    IF i > Len(hexes) THEN hexes
    ELSE LET h == hexes[i][2]
             add == budget
         IN  IF owner(h) = player
             THEN reinforce_from(
                      [hexes EXCEPT ![i] = <<hexes[i][1], u8_new(player, dice(h) + add, TRUE)>>],
                      player, budget - add, i + 1)
             ELSE reinforce_from(hexes, player, budget, i + 1)

reinforce_from(hexes, player, budget, i) ==
    IF i > Len(hexes) THEN hexes
    ELSE LET h == hexes[i][2]
             add == Min(budget, DiceCap - dice(h))
         IN  IF owner(h) = player
             THEN reinforce_from(
                      [hexes EXCEPT ![i] = <<hexes[i][1], u8_new(player, dice(h) + add, TRUE)>>],
                      player, budget - add, i + 1)
             ELSE reinforce_from(hexes, player, budget, i + 1)

reinforce(grid, player, budget) ==
    [grid EXCEPT !.hexes = reinforce_from(grid.hexes, player, budget, 1)]

\* u8::saturating_sub
saturating_sub(a, b) == IF a > b THEN a - b ELSE 0

\* The board of a TurnOver: the grid reinforced for the outgoing player
\* with captured_dice - 1, the next player current, the counters reset.
turn_over_board(board) ==
    BoardNew(next(board.players),
             reinforce(board.grid, current(board.players),
                       saturating_sub(board.captured_dice, 1)),
             0, 0)

\* Mutant: the player without tiles stays on the roster and the turn moves on.
game_over_board_keeps_player(board) ==
    BoardNew(next(board.players), grid_from_move(board.grid, Pass), 0, 0)

\* The board of a GameOver: the current player removed, the counters reset.
game_over_board(board) ==
    BoardNew(remove_current(board.players), grid_from_move(board.grid, Pass), 0, 0)

\* Mutant: the dice of the attacker are counted as captured.
capturing_attacker(action) == IF IsAttack(action) THEN action[4] ELSE 0

\* Action::capturing
capturing(action) == IF IsAttack(action) THEN action[5] ELSE 0

\* The board of a Continue: the attack applied, the defender's dice
\* captured, one more move made, the same players.
continue_board(board, attack) ==
    BoardNew(board.players, grid_from_move(board.grid, attack),
             board.captured_dice + capturing(attack), board.moved + 1)

\* Mutant: the turn ends one move late.
move_limit_passed(board, move_limit) == board.moved > move_limit

\* The turn ends once the moves of the turn reach the limit.
move_limit_reached(board, move_limit) == board.moved >= move_limit

\* choices_from_board_only_pass_at_end
choices_from_board_only_pass_at_end(board, move_limit) ==
    LET attacking_moves == all_legal_attacks_from(board.grid, current(board.players))
    IN  IF attacking_moves = <<>>
        THEN IF winner(board)
             THEN <<ChoiceNew(Pass, Consequence("Winner", board))>>
             ELSE IF loser(board)
             THEN <<ChoiceNew(Pass, Consequence("GameOver", game_over_board(board)))>>
             ELSE IF stalemate(board)
             THEN <<ChoiceNew(Pass, Consequence("Stalemate", board))>>
             ELSE <<ChoiceNew(Pass, Consequence("TurnOver", turn_over_board(board)))>>
        ELSE IF move_limit_reached(board, move_limit)
        THEN <<ChoiceNew(Pass, Consequence("TurnOver", turn_over_board(board)))>>
        ELSE [i \in 1..Len(attacking_moves) |->
                ChoiceNew(attacking_moves[i],
                          Consequence("Continue", continue_board(board, attacking_moves[i])))]

\* ------------------------------------------------------------ session.rs
\* Session::advance on a lost roll: the board stays, the attacking tile is
\* frozen and one more move is counted.
lost_attack_board(current_board, attacker_coordinate) ==
    LET f(coordinate, hold) ==
            IF coordinate = attacker_coordinate
            THEN u8_new(owner(hold), dice(hold), FALSE)
            ELSE hold
        grid == current_board.grid
    IN  BoardNew(current_board.players,
                 fork_with(grid, [i \in 1..Len(grid.hexes) |->
                                    f(grid.hexes[i][1], grid.hexes[i][2])]),
                 current_board.captured_dice, current_board.moved + 1)

\* ------------------------------------------------------------------ state
VARIABLES
    board,          \* the board the game is at; the root of the tree
    move_limit,     \* the move limit of the session or of the expansion
    choices,        \* the choices the rules engine returned for `board`
    states,         \* generate.rs: the map from Board to its choices
    current_layer,  \* generate.rs: the boards of the layer still to visit
    next_layer,     \* generate.rs: the boards gathered for the next layer
    board_inserts,  \* generate.rs: the inserts counted by the layer stats
    pc,             \* the position of the expander; "play" while a game runs
    tree,           \* session.rs: the tree of the session
    op,             \* the last call made: its name, arguments and result
    turns           \* session.rs: the turn history of the session

expander == <<states, current_layer, next_layer, board_inserts, pc>>

session == <<tree, op, turns>>

vars == <<board, move_limit, choices, states, current_layer, next_layer,
          board_inserts, pc, tree, op, turns>>

\* No call made yet; no tree held.
NoOp == [name |-> "none", args |-> <<>>, result |-> <<>>, panicked |-> FALSE]

\* A call that returned, and a call that panicked.
Call(name, args, result) ==
    [name |-> name, args |-> args, result |-> result, panicked |-> FALSE]

Panic(name, args) ==
    [name |-> name, args |-> args, result |-> <<>>, panicked |-> TRUE]

\* A call aborted by a stack overflow.
StackOverflow(name, args) ==
    [name |-> name, args |-> args, result |-> <<"stack overflow">>, panicked |-> TRUE]

NoTree == [root |-> <<>>, states |-> [b \in {} |-> <<>>]]

\* HashMap::new
NoStates == [b \in {} |-> <<>>]

\* The starting boards: a rectangular grid whose tiles are all mobile and
\* hold 1..most dice of a player of the roster; no dice captured, no move
\* made, the first player current.
StartHolds(n, most) == {u8_new(o, d, TRUE) : o \in 1..n, d \in 1..most}

\* The rosters drawn for a shape: the four-tile grid is played by two.
Rosters(shape) == IF shape[1] * shape[2] > 3 THEN {2} ELSE 2..MaxRoster

StartBoardsOf(shape, n, most) ==
    {BoardNew(PlayersNew(n), generate_with(shape[1], shape[2], data), 0, 0) :
        data \in [1..(shape[1] * shape[2]) -> StartHolds(n, most)]}

StartBoards ==
    UNION {UNION {StartBoardsOf(shape, n, StartDice) : n \in Rosters(shape)} :
            shape \in Shapes}

Init ==
    /\ board \in StartBoards
    /\ move_limit \in 1..MaxMoveLimit
    /\ choices = choices_from_board_only_pass_at_end(board, move_limit)
    /\ states = NoStates
    /\ current_layer = <<>>
    /\ next_layer = <<>>
    /\ board_inserts = 0
    /\ pc = "play"
    /\ tree = NoTree
    /\ op = NoOp
    /\ turns = <<>>

\* The rules engine is asked for the choices of the board reached.
Arrive(b) ==
    /\ board' = b
    /\ choices' = choices_from_board_only_pass_at_end(b, move_limit)
    /\ UNCHANGED <<move_limit, expander, session>>

\* An attack is chosen and won (session.rs:273-275), or followed by the
\* expander (generate.rs:145-149): the game is at the Continue board.
AttackWon ==
    \E i \in 1..Len(choices) :
        /\ IsAttack(choices[i].action)
        /\ Arrive(ConsequenceBoard(choices[i].consequence))

\* An attack is chosen and lost (session.rs:276-294).
AttackLost ==
    \E i \in 1..Len(choices) :
        /\ IsAttack(choices[i].action)
        /\ Arrive(lost_attack_board(board, choices[i].action[2]))

\* A lone Pass with a TurnOver or GameOver consequence is followed
\* (session.rs:164-175, generate.rs:145-149).
ForcedPass ==
    /\ Len(choices) = 1
    /\ ~IsAttack(choices[1].action)
    /\ choices[1].consequence[1] \in {"TurnOver", "GameOver"}
    /\ Arrive(ConsequenceBoard(choices[1].consequence))

Next == AttackWon \/ AttackLost \/ ForcedPass

Spec == Init /\ [][Next]_vars

\* ------------------------------------------------------- game/generate.rs
\* HashMap::contains_key and HashMap::insert on the states map.
contains_key(map, b) == b \in DOMAIN map

insert(map, b, cs) == [k \in DOMAIN map \cup {b} |-> IF k = b THEN cs ELSE map[k]]

\* Mutant: only the board of the first choice is handed to the next layer.
consequence_boards_first_only(cs) ==
    IF cs = <<>> THEN <<>> ELSE <<ConsequenceBoard(cs[1].consequence)>>

\* The boards of the consequences of the choices, in order.
consequence_boards(cs) ==
    [k \in 1..Len(cs) |-> ConsequenceBoard(cs[k].consequence)]

\* The `for board in layer` loop of the bounded expander: the result is
\* <<states, next_layer>>.
RECURSIVE bounded_layer(_, _, _, _)
bounded_layer(map, layer, gathered, limit) ==
    IF layer = <<>> THEN <<map, gathered>>
    ELSE LET b == Head(layer)
             cs == choices_from_board_only_pass_at_end(b, limit)
         IN  IF ~contains_key(map, b)
             THEN bounded_layer(insert(map, b, cs), Tail(layer),
                                gathered \o consequence_boards(cs), limit)
             ELSE bounded_layer(map, Tail(layer), gathered, limit)

\* Mutant: one layer more than the horizon is expanded.
RECURSIVE bounded_loop_one_more(_, _, _, _, _)
bounded_loop_one_more(map, layer, depth, horizon, limit) ==
    IF depth > horizon THEN map
    ELSE IF layer = <<>> THEN map
    ELSE LET done == bounded_layer(map, layer, <<>>, limit)
         IN  bounded_loop_one_more(done[1], done[2], depth + 1, horizon, limit)

\* The `for _depth in 0..horizon` loop of the bounded expander.
RECURSIVE bounded_loop(_, _, _, _, _)
bounded_loop(map, layer, depth, horizon, limit) ==
    IF depth >= horizon THEN map
    ELSE IF layer = <<>> THEN map
    ELSE LET done == bounded_layer(map, layer, <<>>, limit)
         IN  bounded_loop(done[1], done[2], depth + 1, horizon, limit)

\* bounded_breadth_first_calc_consequences (the states of its result);
\* calculate_consequences returns them.
bounded_breadth_first_calc_consequences(start, horizon, limit) ==
    bounded_loop(NoStates, <<start>>, 0, horizon, limit)

calculate_consequences(from, horizon, limit) ==
    bounded_breadth_first_calc_consequences(from, horizon, limit)

\* start_tree_horizon_limited
start_tree_horizon_limited(root, horizon, limit) ==
    TreeNew(root, calculate_consequences(root, horizon, limit))

\* The `for board in layer` loop of the insert-budgeted expander: the
\* result is <<states, next_layer, spent>>.  An insert is charged from the
\* second layer on; the loop is left once spent exceeds the budget.
RECURSIVE budgeted_layer(_, _, _, _, _, _, _)
budgeted_layer(map, layer, gathered, spent, layer_count, boards, limit) ==
    IF layer = <<>> THEN <<map, gathered, spent>>
    ELSE LET b == Head(layer)
             cs == choices_from_board_only_pass_at_end(b, limit)
             fresh == ~contains_key(map, b)
             map2 == IF fresh THEN insert(map, b, cs) ELSE map
             gathered2 == IF fresh THEN gathered \o consequence_boards(cs) ELSE gathered
             spent2 == IF fresh /\ layer_count > 1 THEN spent + 1 ELSE spent
         IN  IF spent2 > boards THEN <<map2, gathered2, spent2>>
             ELSE budgeted_layer(map2, Tail(layer), gathered2, spent2, layer_count,
                                 boards, limit)

\* The `while spent < boards` loop of the insert-budgeted expander.
RECURSIVE budgeted_loop(_, _, _, _, _, _)
budgeted_loop(map, layer, spent, layer_count, boards, limit) ==
    IF ~(spent < boards) THEN map
    ELSE IF layer = <<>> THEN map
    ELSE LET done == budgeted_layer(map, layer, <<>>, spent, layer_count + 1, boards, limit)
         IN  budgeted_loop(done[1], done[2], done[3], layer_count + 1, boards, limit)

\* insert_budgeted_breadth_first_calc_consequences (the states of its
\* result); calculate_consequences_insert_limited returns them.
insert_budgeted_breadth_first_calc_consequences(start, boards, limit) ==
    budgeted_loop(NoStates, <<start>>, 0, 0, boards, limit)

calculate_consequences_insert_limited(from, board_budget, limit) ==
    insert_budgeted_breadth_first_calc_consequences(from, board_budget, limit)

\* start_tree_insert_budgeted
start_tree_insert_budgeted(root, board_budget, limit) ==
    TreeNew(root, calculate_consequences_insert_limited(root, board_budget, limit))

\* Mutant: a key of extra replaces the key of the tree.
append_overwriting(t, extra) ==
    [t EXCEPT !.states =
        [b \in DOMAIN t.states \cup DOMAIN extra |->
            IF contains_key(extra, b) THEN extra[b] ELSE t.states[b]]]

\* Tree::append: a key of extra is inserted only if it is no key yet.
append(t, extra) ==
    [t EXCEPT !.states =
        [b \in DOMAIN t.states \cup DOMAIN extra |->
            IF contains_key(t.states, b) THEN t.states[b] ELSE extra[b]]]

\* Result<(), Board>
Ok(v) == <<"Ok", v>>
Err(e) == <<"Err", e>>

\* grow_tree_horizon_limited: the result of the lookup of `from` is dropped
\* (`let _ = ...`), the new states are appended and Ok(()) is returned.  The
\* value is <<result, tree>>.
grow_tree_horizon_limited(from, horizon, t, limit) ==
    LET new_states == calculate_consequences(from, horizon, limit)
    IN  <<Ok(<<>>), append(t, new_states)>>

\* ---------------------------------------------------------- game/score.rs
\* HashMap<Player, Score>: a function from the players with an entry.
NoScores == [p \in {} |-> <<>>]

put(scores, player, score) ==
    [p \in DOMAIN scores \cup {player} |-> IF p = player THEN score ELSE scores[p]]

\* Mutant: the share of the tiles the others hold.
score_board_of_others(b) ==
    LET hs == b.grid.hexes
        tiles == Len(hs)
        owners == {owner(hs[i][2]) : i \in 1..tiles}
        held(p) == Cardinality({i \in 1..tiles : owner(hs[i][2]) = p})
    IN  [p \in owners |-> ScoreNew(f64_div(tiles - held(p), tiles), 0)]

\* score_board: the fraction of the tiles each owner holds, distance 0.
score_board(b) ==
    LET hs == b.grid.hexes
        tiles == Len(hs)
        owners == {owner(hs[i][2]) : i \in 1..tiles}
        held(p) == Cardinality({i \in 1..tiles : owner(hs[i][2]) = p})
    IN  [p \in owners |-> ScoreNew(f64_div(held(p), tiles), 0)]

\* Mutant: only the first choice of a board takes a score.
set_score_first_only(map, b, k, score) ==
    IF k = 1 THEN [map EXCEPT ![b][k].score = Some(score)] ELSE map

\* Choice::set_score on choice k of board b.
set_score(map, b, k, score) == [map EXCEPT ![b][k].score = Some(score)]

\* The scores of the Winner and of the GameOver branch of score.
win_score == ScoreNew(f64_div(1, 1), 0)

\* Mutant: the lost game is scored one choice away.
game_over_score_one_away == ScoreNew(f64_div(0, 1), 1)

game_over_score == ScoreNew(f64_div(0, 1), 0)

\* The back propagation of score: every sub score, one step farther, is
\* kept where it is better than the score held or no score is held.
back_propagate(scores, sub_scores) ==
    [p \in DOMAIN scores \cup DOMAIN sub_scores |->
        IF p \notin DOMAIN sub_scores THEN scores[p]
        ELSE LET new_score == increment_distance(sub_scores[p])
             IN  IF p \notin DOMAIN scores THEN new_score
                 ELSE IF partial_cmp(new_score, scores[p]) = "Greater" THEN new_score
                 ELSE scores[p]]

\* What a call of score leaves: the count returned, the scores returned,
\* the states with the score cells written, and whether it panicked (the
\* unwrap of the Stalemate branch, the assertion of the GameOver branch).
Scored(touched, scores, map, panicked) ==
    [touched |-> touched, scores |-> scores, states |-> map, panicked |-> panicked,
     overflow |-> FALSE]

\* The call stack: a recursion deeper than MaxStack frames overflows the
\* stack and the process is aborted.
MaxStack == 16

Overflowed(map) ==
    [touched |-> 0, scores |-> NoScores, states |-> map, panicked |-> TRUE,
     overflow |-> TRUE]

\* score: score_choices is its `for choice in choices` loop from choice k,
\* with the sum and the scores gathered so far.
RECURSIVE score_at(_, _, _)
RECURSIVE score_choices(_, _, _, _, _, _)
score_choices(b, map, k, sum, scores, depth) ==
    IF k > Len(map[b]) THEN Scored(sum + 1, scores, map, FALSE)
    ELSE LET choice == map[b][k]
             player == current(b.players)
             kind == choice.consequence[1]
             cb == ConsequenceBoard(choice.consequence)
             sub == score_at(cb, map, depth + 1)
             present == player \in DOMAIN sub.scores
         IN  IF choice.score # None THEN score_choices(b, map, k + 1, sum, scores, depth)
             ELSE IF kind = "Stalemate"
             THEN LET sub_scores == score_board(cb)
                  IN  IF player \notin DOMAIN sub_scores
                      THEN Scored(sum, scores, map, TRUE)
                      ELSE Scored(1, sub_scores, set_score(map, b, k, sub_scores[player]),
                                  FALSE)
             ELSE IF kind = "Winner"
             THEN Scored(1, put(NoScores, player, win_score),
                         set_score(map, b, k, win_score), FALSE)
             ELSE IF sub.panicked THEN sub
             ELSE IF kind = "GameOver"
             THEN IF present THEN Scored(sum, scores, sub.states, TRUE)
                  ELSE score_choices(b, set_score(sub.states, b, k, game_over_score),
                                     k + 1, sum + sub.touched,
                                     back_propagate(scores,
                                         put(sub.scores, player, game_over_score)),
                                     depth)
             ELSE LET s == IF present THEN increment_distance(sub.scores[player])
                           ELSE ScoreNew(f64_div(0, 1), 0)
                      sc == IF present THEN sub.scores ELSE put(sub.scores, player, s)
                  IN  score_choices(b, set_score(sub.states, b, k, s), k + 1,
                                    sum + sub.touched, back_propagate(scores, sc), depth)

\* score entered as frame `depth` of the call stack.
score_at(b, map, depth) ==
    IF depth > MaxStack THEN Overflowed(map)
    ELSE IF ~contains_key(map, b) THEN Scored(0, score_board(b), map, FALSE)
    ELSE score_choices(b, map, 1, 0, NoScores, depth)

score(b, map) == score_at(b, map, 1)

\* Choice::clear_score on choice k of board b.
clear_score(map, b, k) == [map EXCEPT ![b][k].score = None]

\* clear: clear_choices is its `for choice in choices` loop from choice k.
\* A choice without a score is passed over; a scored one is cleared after
\* the board it leads to (GameOver, Continue, TurnOver) has been cleared.
RECURSIVE clear(_, _)
RECURSIVE clear_choices(_, _, _)
clear_choices(b, map, k) ==
    IF k > Len(map[b]) THEN map
    ELSE LET choice == map[b][k]
             kind == choice.consequence[1]
             below == IF kind \in {"GameOver", "Continue", "TurnOver"}
                      THEN clear(ConsequenceBoard(choice.consequence), map)
                      ELSE map
         IN  IF choice.score = None THEN clear_choices(b, map, k + 1)
             ELSE clear_choices(b, clear_score(below, b, k), k + 1)

\* Mutant: only the choices of the board itself are cleared.
clear_without_descent(b, map) ==
    IF ~contains_key(map, b) THEN map
    ELSE [map EXCEPT ![b] = [k \in 1..Len(map[b]) |-> [map[b][k] EXCEPT !.score = None]]]

clear(b, map) ==
    IF ~contains_key(map, b) THEN map ELSE clear_choices(b, map, 1)

\* clear_all_scoring: the tree with the score cells reached from its root
\* emptied.
clear_all_scoring(t) == [t EXCEPT !.states = clear(t.root, t.states)]

\* score_tree: the tree with its score cells written.
score_tree(t) == [t EXCEPT !.states = score(t.root, t.states).states]

\* The roots expanded: the starting boards of one row, and the four-tile
\* boards whose tiles hold 1..TreeDice dice.
TreeShapes == {<<2, 1>>, <<3, 1>>}

TreeRoots ==
    UNION {UNION {StartBoardsOf(shape, n, StartDice) : n \in Rosters(shape)} :
            shape \in TreeShapes}
        \cup StartBoardsOf(<<2, 2>>, 2, TreeDice)

\* build_tree(root, move_limit) enters breadth_first_calc_consequences.
TreeInit ==
    /\ board \in TreeRoots
    /\ move_limit \in 1..MaxMoveLimit
    /\ choices = choices_from_board_only_pass_at_end(board, move_limit)
    /\ states = NoStates
    /\ current_layer = <<board>>
    /\ next_layer = <<>>
    /\ board_inserts = 0
    /\ pc = "loop"
    /\ tree = NoTree
    /\ op = NoOp
    /\ turns = <<>>

\* The layer taken is empty: the loop is left and the tree is returned.
LayerEmpty ==
    /\ pc = "loop"
    /\ current_layer = <<>>
    /\ pc' = "done"
    /\ UNCHANGED <<board, move_limit, choices, states, current_layer, next_layer,
                   board_inserts, session>>

\* The layer taken holds boards: a new next layer is started.
LayerStart ==
    /\ pc = "loop"
    /\ current_layer # <<>>
    /\ next_layer' = <<>>
    /\ pc' = "for"
    /\ UNCHANGED <<board, move_limit, choices, states, current_layer, board_inserts,
                   session>>

\* A board of the layer that is not yet a key is expanded.
ExpandBoard ==
    /\ pc = "for"
    /\ current_layer # <<>>
    /\ LET b == Head(current_layer)
           cs == choices_from_board_only_pass_at_end(b, move_limit)
       IN  /\ ~contains_key(states, b)
           /\ next_layer' = next_layer \o consequence_boards(cs)
           /\ states' = insert(states, b, cs)
           /\ board_inserts' = board_inserts + 1
    /\ current_layer' = Tail(current_layer)
    /\ UNCHANGED <<board, move_limit, choices, pc, session>>

\* A board of the layer that is already a key is passed over.
SkipBoard ==
    /\ pc = "for"
    /\ current_layer # <<>>
    /\ contains_key(states, Head(current_layer))
    /\ current_layer' = Tail(current_layer)
    /\ UNCHANGED <<board, move_limit, choices, states, next_layer, board_inserts, pc,
                   session>>

\* The layer is done: the next layer becomes the current one.
LayerEnd ==
    /\ pc = "for"
    /\ current_layer = <<>>
    /\ current_layer' = next_layer
    /\ next_layer' = <<>>
    /\ pc' = "loop"
    /\ UNCHANGED <<board, move_limit, choices, states, board_inserts, session>>

TreeNext == LayerEmpty \/ LayerStart \/ ExpandBoard \/ SkipBoard \/ LayerEnd

TreeSpec == TreeInit /\ [][TreeNext]_vars

\* score_tree on the tree build_tree returned: Tree::new(root, states) with
\* its score cells written.
ScoreBuiltTree ==
    /\ pc = "done"
    /\ LET scored == score(board, states)
       IN  /\ tree' = TreeNew(board, scored.states)
           /\ op' = IF scored.panicked THEN Panic("score_tree", <<TreeNew(board, states)>>)
                    ELSE Call("score_tree", <<TreeNew(board, states)>>, scored.touched)
    /\ pc' = "scored"
    /\ UNCHANGED <<board, move_limit, choices, states, current_layer, next_layer,
                   board_inserts, turns>>

ScoreNext == TreeNext \/ ScoreBuiltTree

ScoreSpec == TreeInit /\ [][ScoreNext]_vars

\* --------------------------------------- callers of the game module
\* A caller of the public functions of the game module (game.rs:14-22)
\* holds a tree: it starts one from its board, grows it, scores it.
MaxHorizon == 3
MaxBudget == 2

CallerRoots ==
    StartBoardsOf(<<2, 1>>, 2, StartDice) \cup StartBoardsOf(<<3, 1>>, 2, TreeDice)

CallerInit ==
    /\ board \in CallerRoots
    /\ move_limit \in 1..MaxMoveLimit
    /\ choices = choices_from_board_only_pass_at_end(board, move_limit)
    /\ states = NoStates
    /\ current_layer = <<>>
    /\ next_layer = <<>>
    /\ board_inserts = 0
    /\ pc = "call"
    /\ tree = NoTree
    /\ op = NoOp
    /\ turns = <<>>


\* start_tree_horizon_limited(board, horizon, move_limit)
StartTreeHorizonLimited ==
    \E horizon \in 0..MaxHorizon :
        /\ op.name = "none"
        /\ tree' = start_tree_horizon_limited(board, horizon, move_limit)
        /\ op' = Call("start_tree_horizon_limited", <<board, horizon>>, <<>>)
        /\ UNCHANGED <<board, move_limit, choices, expander, turns>>

\* start_tree_insert_budgeted(board, board_budget, move_limit)
StartTreeInsertBudgeted ==
    \E board_budget \in 0..MaxBudget :
        /\ op.name = "none"
        /\ tree' = start_tree_insert_budgeted(board, board_budget, move_limit)
        /\ op' = Call("start_tree_insert_budgeted", <<board, board_budget>>, <<>>)
        /\ UNCHANGED <<board, move_limit, choices, expander, turns>>

\* The boards a caller grows from: its root, the boards the choices of the
\* root lead to, and the board of a lost attack from its root.
GrowFrom ==
    {board}
        \cup {ConsequenceBoard(choices[k].consequence) : k \in 1..Len(choices)}
        \cup {lost_attack_board(board, board.grid.hexes[1][1])}

\* grow_tree_horizon_limited(from, horizon, &mut tree, move_limit); the
\* tree before the call is kept with the arguments.
GrowTreeHorizonLimited ==
    \E from \in GrowFrom, horizon \in {0, MaxHorizon - 1} :
        /\ op.name \in {"start_tree_horizon_limited", "start_tree_insert_budgeted",
                        "score_tree"}
        /\ pc \in {"call", "scored once"}
        /\ LET grown == grow_tree_horizon_limited(from, horizon, tree, move_limit)
           IN  /\ tree' = grown[2]
               /\ op' = Call("grow_tree_horizon_limited", <<from, horizon, tree>>, grown[1])
        /\ UNCHANGED <<board, move_limit, choices, expander, turns>>

\* score_tree(&tree): the count returned, or the panic, is the result. The
\* caller's position tells a first pass from a pass after clear_all_scoring.
ScoreTree ==
    /\ op.name \in {"start_tree_horizon_limited", "start_tree_insert_budgeted",
                    "clear_all_scoring", "Tree::new"}
    /\ LET scored == score(tree.root, tree.states)
       IN  /\ tree' = [tree EXCEPT !.states = scored.states]
           /\ op' = IF scored.overflow THEN StackOverflow("score_tree", <<tree>>)
                    ELSE IF scored.panicked THEN Panic("score_tree", <<tree>>)
                    ELSE Call("score_tree", <<tree>>, scored.touched)
    /\ pc' = IF op.name = "clear_all_scoring" THEN "scored again" ELSE "scored once"
    /\ UNCHANGED <<board, move_limit, choices, states, current_layer, next_layer,
                   board_inserts, turns>>

\* clear_all_scoring(&tree) on the tree score_tree has just scored.
ClearAllScoring ==
    /\ op.name = "score_tree"
    /\ ~op.panicked
    /\ tree' = clear_all_scoring(tree)
    /\ op' = Call("clear_all_scoring", <<tree>>, <<>>)
    /\ pc' = "cleared"
    /\ UNCHANGED <<board, move_limit, choices, states, current_layer, next_layer,
                   board_inserts, turns>>

CallerNext ==
    \/ StartTreeHorizonLimited
    \/ StartTreeInsertBudgeted
    \/ GrowTreeHorizonLimited
    \/ ScoreTree

CallerSpec == CallerInit /\ [][CallerNext]_vars

\* A caller that starts a tree, scores it, clears it and scores it again,
\* from boards of two tiles and from boards of three tiles and three
\* players.
ScorerRoots ==
    StartBoardsOf(<<2, 1>>, 2, StartDice) \cup StartBoardsOf(<<3, 1>>, 3, TreeDice)

ScorerInit ==
    /\ board \in ScorerRoots
    /\ move_limit \in 1..MaxMoveLimit
    /\ choices = choices_from_board_only_pass_at_end(board, move_limit)
    /\ states = NoStates
    /\ current_layer = <<>>
    /\ next_layer = <<>>
    /\ board_inserts = 0
    /\ pc = "call"
    /\ tree = NoTree
    /\ op = NoOp
    /\ turns = <<>>

ScorerNext ==
    \/ StartTreeHorizonLimited
    \/ StartTreeInsertBudgeted
    \/ ScoreTree
    \/ ClearAllScoring

ScorerSpec == ScorerInit /\ [][ScorerNext]_vars

\* Any state map Tree::new accepts, over three boards of two tiles: a key
\* holds a lone Pass (Winner, Stalemate, GameOver or TurnOver) or one or two
\* Attack choices that Continue, each leading to any of the three boards.
AnyBoards ==
    LET ab == generate_with(2, 1, <<u8_new(1, 2, TRUE), u8_new(2, 1, TRUE)>>)
        aa == generate_with(2, 1, <<u8_new(1, 1, TRUE), u8_new(1, 1, TRUE)>>)
    IN  {BoardNew(PlayersNew(2), ab, 0, 0),
         BoardNew(next(PlayersNew(2)), ab, 0, 0),
         BoardNew(PlayersNew(2), aa, 1, 1)}

AnyChoices ==
    LET pass == {ChoiceNew(Pass, Consequence(kind, b)) :
                    kind \in {"Winner", "Stalemate", "GameOver", "TurnOver"},
                    b \in AnyBoards}
        attack == {ChoiceNew(Attack(<<0, 0, 0>>, <<1, -1, 0>>, 2, 1),
                             Consequence("Continue", b)) : b \in AnyBoards}
    IN  {<<c>> : c \in pass \cup attack} \cup {<<c, d>> : c \in attack, d \in attack}

AnyMaps == UNION {[keys -> AnyChoices] : keys \in SUBSET AnyBoards}

AnyMapInit ==
    /\ board = BoardNew(PlayersNew(2),
                        generate_with(2, 1, <<u8_new(1, 2, TRUE), u8_new(2, 1, TRUE)>>),
                        0, 0)
    /\ move_limit = 1
    /\ choices = <<>>
    /\ states = NoStates
    /\ current_layer = <<>>
    /\ next_layer = <<>>
    /\ board_inserts = 0
    /\ pc = "call"
    /\ \E map \in AnyMaps : tree = TreeNew(board, map)
    /\ op = Call("Tree::new", <<board>>, <<>>)
    /\ turns = <<>>

AnyMapNext == ScoreTree

AnyMapSpec == AnyMapInit /\ [][AnyMapNext]_vars

\* ------------------------------------------------- session.rs: Session
\* State::new; Progression is <<"PlayOn", outcome>>, <<"GameOverWinner",
\* player>> or <<"GameOverStalemate">>.
StateNew(game, traversal, b, cs) ==
    [game |-> game, traversal |-> traversal, board |-> b, choices |-> cs]

\* The loop of state_from_board: Ok(state), Err(depth) on a tree miss;
\* a lone Pass with a Continue consequence is unreachable!().
RECURSIVE state_from_board_loop(_, _, _, _, _)
\* Mutant: a lone Pass that ends the turn is presented, not played.
state_from_board_loop_presents_pass(current_board, t, outcome, traversal, depth) ==
    LET fetched == fetch_choices(t, current_board)
        cs == fetched[1]
        kind == cs[1].consequence[1]
        next_board == ConsequenceBoard(cs[1].consequence)
    IN  IF fetched = None THEN Err(depth)
        ELSE IF Len(cs) # 1 \/ IsAttack(cs[1].action) \/ kind = "TurnOver"
        THEN Ok(StateNew(<<"PlayOn", outcome>>, traversal, current_board, cs))
        ELSE IF kind = "Stalemate"
        THEN Ok(StateNew(<<"GameOverStalemate">>, traversal, next_board, cs))
        ELSE IF kind = "Winner"
        THEN Ok(StateNew(<<"GameOverWinner", current(next_board.players)>>, traversal,
                         next_board, cs))
        ELSE IF kind = "GameOver"
        THEN state_from_board_loop(next_board, t, outcome,
                                   Append(traversal, <<current_board, cs[1]>>), depth + 1)
        ELSE <<"unreachable">>

state_from_board_loop(current_board, t, outcome, traversal, depth) ==
    LET fetched == fetch_choices(t, current_board)
        cs == fetched[1]
        kind == cs[1].consequence[1]
        next_board == ConsequenceBoard(cs[1].consequence)
    IN  IF fetched = None THEN Err(depth)
        ELSE IF Len(cs) # 1
        THEN Ok(StateNew(<<"PlayOn", outcome>>, traversal, current_board, cs))
        ELSE IF IsAttack(cs[1].action)
        THEN Ok(StateNew(<<"PlayOn", outcome>>, traversal, current_board, cs))
        ELSE IF kind = "Stalemate"
        THEN Ok(StateNew(<<"GameOverStalemate">>, traversal, next_board, cs))
        ELSE IF kind = "Winner"
        THEN Ok(StateNew(<<"GameOverWinner", current(next_board.players)>>, traversal,
                         next_board, cs))
        ELSE IF kind \in {"GameOver", "TurnOver"}
        THEN state_from_board_loop(next_board, t, outcome,
                                   Append(traversal, <<current_board, cs[1]>>), depth + 1)
        ELSE <<"unreachable">>

state_from_board(current_board, t, outcome) ==
    state_from_board_loop(current_board, t, outcome, <<>>, 1)

\* The loop of Session::new and Session::advance: on a tree miss a new tree
\* is started from next_board with the depth asked for, it takes the place
\* of the session's tree, and the state is asked for again.
RECURSIVE state_loop(_, _, _, _)
state_loop(next_board, t, outcome, limit) ==
    LET found == state_from_board(next_board, t, outcome)
    IN  IF found[1] = "Err"
        THEN state_loop(next_board, start_tree_horizon_limited(next_board, found[2], limit),
                        outcome, limit)
        ELSE [state |-> found, tree |-> t]

\* LastAttack::new, LastAttack::default
LastAttackNew(attacker_dice, attacker_rolled, defender_dice, defender_rolled) ==
    [attacker_dice |-> attacker_dice, attacker_rolled |-> attacker_rolled,
     defender_dice |-> defender_dice, defender_rolled |-> defender_rolled]

LastAttackDefault == LastAttackNew(0, 0, 0, 0)

\* roll_d6s: the sums d6s dice of six faces can show.
roll_d6s(d6s) == d6s..(6 * d6s)

\* The rolls a session is followed for: the attacker's highest roll against
\* the defender's lowest, and the attacker's lowest roll against the same
\* sum and against the defender's highest.
RollPairs(attacker_dice, defender_dice) ==
    {pair \in {<<6 * attacker_dice, defender_dice>>,
               <<attacker_dice, attacker_dice>>,
               <<attacker_dice, 6 * defender_dice>>} :
        pair[1] \in roll_d6s(attacker_dice) /\ pair[2] \in roll_d6s(defender_dice)}

\* Setup::session and Session::new
SessionNew(start, limit) ==
    state_loop(start, start_tree_horizon_limited(start, 1, limit), LastAttackDefault,
               limit)

\* The starting boards of the sessions.
SessionStarts ==
    StartBoardsOf(<<2, 1>>, 2, StartDice) \cup StartBoardsOf(<<3, 1>>, 2, TreeDice)

\* The turns a session is followed for.
MaxTurns == 3

SessionInit ==
    /\ move_limit \in 1..MaxMoveLimit
    /\ \E start \in SessionStarts :
        LET new == SessionNew(start, move_limit)
        IN  /\ board = new.state[2].board
            /\ choices = new.state[2].choices
            /\ tree = new.tree
            /\ turns = <<new.state[2]>>
            /\ op = Call("Session::new", <<start>>, new.state)
    /\ states = NoStates
    /\ current_layer = <<>>
    /\ next_layer = <<>>
    /\ board_inserts = 0
    /\ pc = "session"

\* Session::current_turn
current_turn(history) == history[Len(history)]

\* Mutant: an index beyond the slice gets its last element.
get_last_beyond(slice, index) ==
    IF index < Len(slice) THEN Some(slice[index + 1])
    ELSE IF slice = <<>> THEN None
    ELSE Some(slice[Len(slice)])

\* <[T]>::get (the index counts from 0) and Option::ok_or
get(slice, index) ==
    IF index < Len(slice) THEN Some(slice[index + 1]) ELSE None

ok_or(option, err) == IF option = None THEN Err(err) ELSE Ok(option[1])

\* The choice Session::advance(index) takes, or the error it returns.
advance_choice(history, index) ==
    ok_or(get(current_turn(history).choices, index), "Index out of bounds.")

\* A session is followed until a call panics or returns an error, and is
\* advanced from turns whose choices have not been scored.
Playing ==
    /\ ~op.panicked
    /\ op.name \in {"Session::new", "advance"}
    /\ op.result[1] = "Ok"

\* Mutant: the attacker wins a tie.
next_board_tie_wins(current_board, choice, attacker_roll, defender_roll) ==
    IF attacker_roll >= defender_roll THEN ConsequenceBoard(choice.consequence)
    ELSE lost_attack_board(current_board, choice.action[2])

\* The next board of Session::advance: the consequence of the choice when
\* the attacker rolled more than the defender, else the current board with
\* the attacking tile frozen and one more move counted.
next_board(current_board, choice, attacker_roll, defender_roll) ==
    IF attacker_roll > defender_roll THEN ConsequenceBoard(choice.consequence)
    ELSE lost_attack_board(current_board, choice.action[2])

\* Session::advance(index) on an Attack choice, the two rolls drawn. The
\* tree and the turns before the call are kept with the arguments.
Advance ==
    \E index \in 0..Len(choices) :
        LET choice == advance_choice(turns, index)
        IN  /\ Playing
            /\ Len(turns) < MaxTurns
            /\ choice[1] = "Ok"
            /\ IsAttack(choice[2].action)
            /\ \E rolls \in RollPairs(choice[2].action[4], choice[2].action[5]) :
                LET outcome == LastAttackNew(choice[2].action[4], rolls[1],
                                             choice[2].action[5], rolls[2])
                    new == state_loop(next_board(current_turn(turns).board, choice[2],
                                                 rolls[1], rolls[2]),
                                      tree, outcome, move_limit)
                IN  /\ board' = new.state[2].board
                    /\ choices' = new.state[2].choices
                    /\ tree' = new.tree
                    /\ turns' = Append(turns, new.state[2])
                    /\ op' = Call("advance", <<index, outcome, tree, turns>>, new.state)
            /\ UNCHANGED <<move_limit, expander>>

\* Session::advance(index) on a Pass choice: unreachable!().
AdvancePass ==
    \E index \in 0..Len(choices) :
        LET choice == advance_choice(turns, index)
        IN  /\ Playing
            /\ choice[1] = "Ok"
            /\ ~IsAttack(choice[2].action)
            /\ op' = Panic("advance", <<index, LastAttackDefault, tree, turns>>)
            /\ UNCHANGED <<board, move_limit, choices, tree, expander, turns>>

\* Session::advance(index) with no choice at the index: the error is
\* returned by `?` before anything else is done.
AdvanceOutOfBounds ==
    \E index \in 0..(Len(choices) + 1) :
        LET choice == advance_choice(turns, index)
        IN  /\ Playing
            /\ choice[1] = "Err"
            /\ op' = Call("advance", <<index, LastAttackDefault, tree, turns>>, choice)
            /\ UNCHANGED <<board, move_limit, choices, tree, expander, turns>>

\* What score_with_depth_horizon and score_with_insert_budget do with the
\* tree they started: score it, fetch the choices of its root (unwrap),
\* put them into the current state and keep the tree.
ScoreWith(name, arg, started) ==
    LET scored == score(started.root, started.states)
        t == [started EXCEPT !.states = scored.states]
        fetched == fetch_choices(t, t.root)
    IN  IF scored.panicked \/ fetched = None
        THEN /\ op' = Panic(name, <<arg, tree>>)
             /\ UNCHANGED <<board, move_limit, choices, tree, expander, turns>>
        ELSE /\ choices' = fetched[1]
             /\ turns' = [turns EXCEPT ![Len(turns)].choices = fetched[1]]
             /\ tree' = t
             /\ op' = Call(name, <<arg, tree>>, fetched[1])
             /\ UNCHANGED <<board, move_limit, expander>>

ScoreWithDepthHorizon ==
    \E horizon \in 0..MaxHorizon :
        /\ Playing
        /\ ScoreWith("score_with_depth_horizon", horizon,
                     start_tree_horizon_limited(current_turn(turns).board, horizon,
                                                move_limit))

ScoreWithInsertBudget ==
    \E insert_budget \in 0..MaxBudget :
        /\ Playing
        /\ ScoreWith("score_with_insert_budget", insert_budget,
                     start_tree_insert_budgeted(current_turn(turns).board, insert_budget,
                                                move_limit))

SessionNext ==
    \/ Advance
    \/ AdvancePass
    \/ AdvanceOutOfBounds
    \/ ScoreWithDepthHorizon
    \/ ScoreWithInsertBudget

SessionSpec == SessionInit /\ [][SessionNext]_vars

\* ------------------------------------------------- model.rs: Score order
\* The scores compared: destinations are the quotients the scorer produces
\* (owned tiles over all tiles of a board of up to MaxTiles tiles, which
\* include 0.0 and 1.0), distances run up to MaxDistance.
MaxTiles == 3
MaxDistance == 2

Destinations ==
    UNION {{f64_div(n, d) : n \in 0..d} : d \in 1..MaxTiles}

Scores ==
    {ScoreNew(destination, distance) :
        destination \in Destinations, distance \in 0..MaxDistance}

OrderInit ==
    /\ \E a \in Scores, b \in Scores, c \in Scores :
        op = Call("scores", <<a, b, c>>, <<>>)
    /\ board = CHOOSE b \in StartBoardsOf(<<2, 1>>, 2, 1) : TRUE
    /\ move_limit = 1
    /\ choices = <<>>
    /\ states = NoStates
    /\ current_layer = <<>>
    /\ next_layer = <<>>
    /\ board_inserts = 0
    /\ pc = "order"
    /\ tree = NoTree
    /\ turns = <<>>

\* Every pair of the three scores is compared with partial_cmp.
Compare ==
    /\ op.name = "scores"
    /\ op' = Call("partial_cmp", op.args,
                  [i \in 1..3 |-> [j \in 1..3 |-> partial_cmp(op.args[i], op.args[j])]])
    /\ UNCHANGED <<board, move_limit, choices, expander, tree, turns>>

OrderNext == Compare

OrderSpec == OrderInit /\ [][OrderNext]_vars

\* ------------------------------------------------- rosters on their own
\* A roster is asked for with any number of players, then next and
\* remove_current are called on it in any order.
MaxAsked == 9

RosterInit ==
    /\ \E players \in 0..MaxAsked :
        op = Call("Players::new", <<players>>, PlayersNew(players))
    /\ board = CHOOSE b \in StartBoardsOf(<<2, 1>>, 2, 1) : TRUE
    /\ move_limit = 1
    /\ choices = <<>>
    /\ states = NoStates
    /\ current_layer = <<>>
    /\ next_layer = <<>>
    /\ board_inserts = 0
    /\ pc = "roster"
    /\ tree = NoTree
    /\ turns = <<>>

PlayersNext ==
    /\ op' = Call("next", <<op.result>>, next(op.result))
    /\ UNCHANGED <<board, move_limit, choices, expander, tree, turns>>

PlayersRemoveCurrent ==
    /\ op' = Call("remove_current", <<op.result>>, remove_current(op.result))
    /\ UNCHANGED <<board, move_limit, choices, expander, tree, turns>>

RosterNext == PlayersNext \/ PlayersRemoveCurrent

RosterSpec == RosterInit /\ [][RosterNext]_vars

\* --------------------------------------------------- holds on their own
\* A hold is packed for every player a roster can seat, every dice count
\* up to MaxHoldDice and both values of the flag, then read back.
MaxHoldDice == 5

HoldInit ==
    /\ \E player \in 1..MAX_PLAYERS, d \in 0..MaxHoldDice, m \in BOOLEAN :
        op = Call("hold", <<player, d, m>>, <<>>)
    /\ board = CHOOSE b \in StartBoardsOf(<<2, 1>>, 2, 1) : TRUE
    /\ move_limit = 1
    /\ choices = <<>>
    /\ states = NoStates
    /\ current_layer = <<>>
    /\ next_layer = <<>>
    /\ board_inserts = 0
    /\ pc = "hold"
    /\ tree = NoTree
    /\ turns = <<>>

\* u8::new, then owner(), dice() and mobile() of the byte.
HoldingNew ==
    /\ op.name = "hold"
    /\ LET holding == u8_new(op.args[1], op.args[2], op.args[3])
       IN  op' = Call("u8::new", op.args,
                      [holding |-> holding, owner |-> owner(holding),
                       dice |-> dice(holding), mobile |-> mobile(holding)])
    /\ UNCHANGED <<board, move_limit, choices, expander, tree, turns>>

HoldNext == HoldingNew

HoldSpec == HoldInit /\ [][HoldNext]_vars

\* ------------------------------------- coordinates and grids on their own
\* FailsZeroConstraint::new
FailsZeroConstraint(x, y, z) == <<"FailsZeroConstraint", x, y, z>>

\* Mutant: the sum of the three coordinates is not looked at.
construct_unchecked(x, y, z) == Ok(<<x, y, z>>)

\* Cube::construct
construct(x, y, z) ==
    IF x + y + z # 0 THEN Err(FailsZeroConstraint(x, y, z))
    ELSE Ok(<<x, y, z>>)

\* impl IntoCube for Axial: cube() of Axial {column, row}.
axial_cube(column, row) ==
    LET y == column + row
    IN  construct(column, -y, row)

\* The coordinates a cube is asked for with, and the sides of the grids
\* generated.
MaxCoordinate == 2
MaxSide == 4

HexInit ==
    /\ \/ \E x \in -MaxCoordinate..MaxCoordinate, y \in -MaxCoordinate..MaxCoordinate,
             z \in -MaxCoordinate..MaxCoordinate :
            op = Call("coordinates", <<x, y, z>>, <<>>)
       \/ \E columns \in 0..MaxSide, rows \in 0..MaxSide :
            op = Call("shape", <<columns, rows>>, <<>>)
    /\ board = CHOOSE b \in StartBoardsOf(<<2, 1>>, 2, 1) : TRUE
    /\ move_limit = 1
    /\ choices = <<>>
    /\ states = NoStates
    /\ current_layer = <<>>
    /\ next_layer = <<>>
    /\ board_inserts = 0
    /\ pc = "hex"
    /\ tree = NoTree
    /\ turns = <<>>

CubeConstruct ==
    /\ op.name = "coordinates"
    /\ op' = Call("Cube::construct", op.args, construct(op.args[1], op.args[2], op.args[3]))
    /\ UNCHANGED <<board, move_limit, choices, expander, tree, turns>>

\* The first two coordinates are taken as the column and row of an Axial.
AxialCube ==
    /\ op.name = "coordinates"
    /\ op' = Call("Axial::cube", <<op.args[1], op.args[2]>>,
                  axial_cube(op.args[1], op.args[2]))
    /\ UNCHANGED <<board, move_limit, choices, expander, tree, turns>>

\* A cube has been returned by Cube::construct or by Axial::cube.
HasCube == op.name \in {"Cube::construct", "Axial::cube"} /\ op.result[1] = "Ok"

CubeAddDirection ==
    /\ HasCube
    /\ \E d \in 0..5 :
        op' = Call("add", <<op.result[2], d>>, CubeAdd(op.result[2], Direction(d)))
    /\ UNCHANGED <<board, move_limit, choices, expander, tree, turns>>

CubeNeighbours ==
    /\ HasCube
    /\ op' = Call("neighbours", <<op.result[2]>>, neighbours(op.result[2]))
    /\ UNCHANGED <<board, move_limit, choices, expander, tree, turns>>

CubeThreeNeighbours ==
    /\ HasCube
    /\ op' = Call("three_neighbours", <<op.result[2]>>, three_neighbours(op.result[2]))
    /\ UNCHANGED <<board, move_limit, choices, expander, tree, turns>>

\* Rectangular::generate_with(columns, rows, f).to_grid(), f numbering the
\* tiles in the order it is called.
RectangularGenerate ==
    /\ op.name = "shape"
    /\ op' = Call("generate_with", op.args,
                  generate_with(op.args[1], op.args[2],
                                [i \in 1..(op.args[1] * op.args[2]) |-> i]))
    /\ UNCHANGED <<board, move_limit, choices, expander, tree, turns>>

HexNext ==
    \/ CubeConstruct
    \/ AxialCube
    \/ CubeAddDirection
    \/ CubeNeighbours
    \/ CubeThreeNeighbours
    \/ RectangularGenerate

HexSpec == HexInit /\ [][HexNext]_vars

\* ------------------------------------------------ reinforce on its own
\* A row of three tiles, each held by one of two players with few or many
\* dice, mobile or frozen, is reinforced for either player with a budget
\* of 0..MaxReinforce dice.
MaxReinforce == 6

ReinforceHolds == {u8_new(o, d, m) : o \in 1..2, d \in {1, DiceCap - 1, DiceCap}, m \in BOOLEAN}

ReinforceInit ==
    /\ \E data \in [1..3 -> ReinforceHolds], player \in 1..2, budget \in 0..MaxReinforce :
        op = Call("grid", <<generate_with(3, 1, data), player, budget>>, <<>>)
    /\ board = CHOOSE b \in StartBoardsOf(<<2, 1>>, 2, 1) : TRUE
    /\ move_limit = 1
    /\ choices = <<>>
    /\ states = NoStates
    /\ current_layer = <<>>
    /\ next_layer = <<>>
    /\ board_inserts = 0
    /\ pc = "reinforce"
    /\ tree = NoTree
    /\ turns = <<>>

Reinforce ==
    /\ op.name = "grid"
    /\ op' = Call("reinforce", op.args, reinforce(op.args[1], op.args[2], op.args[3]))
    /\ UNCHANGED <<board, move_limit, choices, expander, tree, turns>>

ReinforceNext == Reinforce

ReinforceSpec == ReinforceInit /\ [][ReinforceNext]_vars

\* ------------------------------------------------- vocabulary of the claims
hexes == board.grid.hexes
Tiles == 1..Len(hexes)
Coord(i) == hexes[i][1]
Hold(i) == hexes[i][2]
Cur == current(board.players)

\* The six unit steps of the hex grid, clockwise from UpRight.
Clockwise ==
    << <<1, 0, -1>>, <<1, -1, 0>>, <<0, -1, 1>>, <<-1, 0, 1>>, <<-1, 1, 0>>, <<0, 1, -1>> >>

\* Two cubes are adjacent when they differ by a unit step.
Adjacent(a, b) == \E k \in 1..6 : b = <<a[1] + Clockwise[k][1], a[2] + Clockwise[k][2], a[3] + Clockwise[k][3]>>

OwnsAll == \A i \in Tiles : owner(Hold(i)) = Cur
OwnsNone == \A i \in Tiles : owner(Hold(i)) # Cur
NoLegalAttack == all_legal_attacks_from(board.grid, Cur) = <<>>
AttackChoices == {k \in 1..Len(choices) : IsAttack(choices[k].action)}
LonePass(kind) ==
    /\ Len(choices) = 1
    /\ choices[1].action = Pass
    /\ choices[1].consequence[1] = kind
TotalDice(b) == LET hs == b.grid.hexes
                    sum[i \in 0..Len(hs)] == IF i = 0 THEN 0 ELSE sum[i - 1] + dice(hs[i][2])
                IN  sum[Len(hs)]

\* ------------------------------------------------------------------ claims

\* C1: every Attack(from, to, a, d) the rules engine returns for a board
\* starts at a mobile tile of the current player holding a dice, and goes to
\* a tile of the grid not owned by the current player, holding d dice and
\* adjacent to `from`.
C1_AttackChoiceIsLegal ==
    \A k \in AttackChoices :
        LET act == choices[k].action
        IN  /\ \E i \in Tiles :
                /\ Coord(i) = act[2]
                /\ owner(Hold(i)) = Cur
                /\ dice(Hold(i)) = act[4]
                /\ mobile(Hold(i))
            /\ \E j \in Tiles :
                /\ Coord(j) = act[3]
                /\ owner(Hold(j)) # Cur
                /\ dice(Hold(j)) = act[5]
            /\ Adjacent(act[2], act[3])

\* C1 witness: attacks are offered on a board where another tile of the
\* current player is frozen next to a weaker enemy tile.
C1_Witness ==
    /\ AttackChoices # {}
    /\ \E i, j \in Tiles :
        /\ owner(Hold(i)) = Cur
        /\ ~mobile(Hold(i))
        /\ owner(Hold(j)) # Cur
        /\ Adjacent(Coord(i), Coord(j))
        /\ dice(Hold(j)) < dice(Hold(i))

\* The attacks the claims call legal, as (from, to) pairs in grid order of
\* the attacking tile and clockwise order of its neighbours: from a mobile
\* tile of the current player with more than 1 die to a neighbour in the
\* grid that is not the current player's and holds no more dice.
ClaimedAttacksFrom(i) ==
    LET one(k) ==
            LET n == <<Coord(i)[1] + Clockwise[k][1], Coord(i)[2] + Clockwise[k][2],
                       Coord(i)[3] + Clockwise[k][3]>>
            IN  IF \E j \in Tiles :
                    /\ Coord(j) = n
                    /\ owner(Hold(j)) # Cur
                    /\ dice(Hold(j)) <= dice(Hold(i))
                THEN << <<Coord(i), n>> >>
                ELSE <<>>
    IN  Flatten([k \in 1..6 |-> one(k)])

ClaimedAttacks ==
    Flatten([i \in Tiles |->
        IF owner(Hold(i)) = Cur /\ mobile(Hold(i)) /\ dice(Hold(i)) > 1
        THEN ClaimedAttacksFrom(i)
        ELSE <<>>])

\* The (from, to) pairs of the Attack choices returned, in their order.
OfferedAttacks ==
    LET attacks == SelectSeq(choices, LAMBDA c : IsAttack(c.action))
    IN  [k \in 1..Len(attacks) |-> <<attacks[k].action[2], attacks[k].action[3]>>]

\* C2: while moved is below move_limit the Attack choices are exactly the
\* legal pairs (equal dice may attack), each once, in grid order of the
\* attacking tile and clockwise order of its neighbours.
C2_AttacksAreExactlyTheLegalPairs ==
    board.moved < move_limit => OfferedAttacks = ClaimedAttacks

\* C3: the Continue board of an Attack(from, to, a, d) has the grid of the
\* source board except at `from` (same owner, 1 die) and at `to` (owner of
\* `from`, a - 1 dice); shape, coordinates and order are kept.
C3_AttackChangesOnlyFromAndTo ==
    \A k \in AttackChoices :
        LET act == choices[k].action
            nb == ConsequenceBoard(choices[k].consequence)
            src == fetch(board.grid, act[2])
        IN  /\ choices[k].consequence[1] = "Continue"
            /\ nb.grid.shape = board.grid.shape
            /\ Len(nb.grid.hexes) = Len(hexes)
            /\ \A i \in Tiles :
                LET h == nb.grid.hexes[i][2]
                IN  /\ nb.grid.hexes[i][1] = Coord(i)
                    /\ Coord(i) = act[2] => owner(h) = owner(src) /\ dice(h) = 1
                    /\ Coord(i) = act[3] => owner(h) = owner(src) /\ dice(h) = act[4] - 1
                    /\ Coord(i) \notin {act[2], act[3]} => h = Hold(i)

\* C3 witness: an attack with at least 3 dice is offered on a grid with a
\* tile besides `from` and `to`.
C3_Witness ==
    \E k \in AttackChoices : choices[k].action[4] >= 3 /\ Len(hexes) >= 3

\* C4: the engine returns the lone choice Pass -> Winner(board), the board
\* unchanged, exactly when the current player has no legal attack and owns
\* every tile; a Winner is never produced while another player owns a tile.
C4_WinnerIffOwnsAll ==
    /\ (choices = <<ChoiceNew(Pass, Consequence("Winner", board))>>)
            <=> (NoLegalAttack /\ OwnsAll)
    /\ \A k \in 1..Len(choices) : choices[k].consequence[1] = "Winner" => OwnsAll

\* C4 witness: the win is reached by attacks of this turn.
C4_Witness == LonePass("Winner") /\ board.moved >= 1 /\ Len(hexes) >= 2

AttackablePair ==
    \E i, j \in Tiles :
        /\ Adjacent(Coord(i), Coord(j))
        /\ owner(Hold(i)) # owner(Hold(j))
        /\ dice(Hold(i)) > 1 \/ dice(Hold(j)) > 1

\* C6: when the current player has no legal attack and owns some but not
\* all tiles, the lone choice is Pass -> Stalemate(board) if and only if no
\* pair of adjacent tiles has different owners with either tile holding more
\* than 1 die; a grid of fewer than 2 tiles is never a stalemate.
C6_StalemateIffNoAttackablePair ==
    /\ (NoLegalAttack /\ ~OwnsAll /\ ~OwnsNone) =>
            ((choices = <<ChoiceNew(Pass, Consequence("Stalemate", board))>>)
                <=> ~AttackablePair)
    /\ Len(hexes) < 2 => \A k \in 1..Len(choices) : choices[k].consequence[1] # "Stalemate"

\* The budget of a turnover: captured_dice - 1, saturating at 0.
ClaimedBudget == IF board.captured_dice > 1 THEN board.captured_dice - 1 ELSE 0

\* The dice the current player's tiles can still take.
Room == LET sum[i \in 0..Len(hexes)] ==
                IF i = 0 THEN 0
                ELSE sum[i - 1] + (IF owner(Hold(i)) = Cur THEN DiceCap - dice(Hold(i)) ELSE 0)
        IN  sum[Len(hexes)]

\* nb is the board of a turnover of `board`: the next playing player is
\* current (wrapping), both counters are 0, and the grid is the source grid
\* with min(budget, room) dice added to tiles of the outgoing player, no tile
\* lowered or raised above the cap, no owner and no other tile changed.
IsTurnOverOf(nb) ==
    /\ nb.players = [board.players EXCEPT
                        !.current = (board.players.current + 1) % board.players.count]
    /\ nb.captured_dice = 0
    /\ nb.moved = 0
    /\ nb.grid.shape = board.grid.shape
    /\ Len(nb.grid.hexes) = Len(hexes)
    /\ \A i \in Tiles :
        LET h == nb.grid.hexes[i][2]
        IN  /\ nb.grid.hexes[i][1] = Coord(i)
            /\ owner(h) = owner(Hold(i))
            /\ owner(Hold(i)) # Cur => h = Hold(i)
            /\ dice(h) >= dice(Hold(i))
            /\ dice(h) <= DiceCap
    /\ TotalDice(nb) = TotalDice(board) + Min(ClaimedBudget, Room)

\* C7: with no legal attack, some but not all tiles owned and no stalemate,
\* the engine returns the lone choice Pass -> TurnOver(next): the roster
\* advanced, the counters 0, the grid reinforced for the outgoing player
\* with captured_dice - 1 (saturating at 0).
C7_NoAttackTurnOver ==
    (NoLegalAttack /\ ~OwnsAll /\ ~OwnsNone /\ ~stalemate(board)) =>
        /\ LonePass("TurnOver")
        /\ IsTurnOverOf(ConsequenceBoard(choices[1].consequence))

\* C7 witness: the turn ends for want of an attack, below the move limit,
\* with dice to hand out, from the last player of the roster.
C7_Witness ==
    /\ NoLegalAttack /\ ~OwnsAll /\ ~OwnsNone /\ ~stalemate(board)
    /\ board.moved < move_limit
    /\ board.captured_dice >= 2
    /\ board.players.current + 1 = board.players.count

\* C8: with a legal attack left but moved at or above move_limit, the
\* engine returns exactly one choice, Pass -> TurnOver built as in the
\* no-attack turnover, and no Attack choice.
C8_MoveLimitTurnOver ==
    (~NoLegalAttack /\ board.moved >= move_limit) =>
        /\ LonePass("TurnOver")
        /\ AttackChoices = {}
        /\ IsTurnOverOf(ConsequenceBoard(choices[1].consequence))

\* C8 witness: the limit is reached with an attack left and dice captured.
C8_Witness ==
    ~NoLegalAttack /\ board.moved >= move_limit /\ board.captured_dice >= 2

\* C9: in every board reached from a starting board whose tiles hold 1 to 5
\* dice, every tile holds 1 to 5 dice, so the total never exceeds 5 x tiles.
C9_DiceStayInRange ==
    /\ \A i \in Tiles : dice(Hold(i)) >= 1 /\ dice(Hold(i)) <= 5
    /\ TotalDice(board) <= 5 * Len(hexes)

\* C9 witness: a board after a reinforcement that filled a tile to the cap
\* and went on to a later tile.
C9_Witness ==
    /\ LonePass("TurnOver")
    /\ LET nb == ConsequenceBoard(choices[1].consequence)
       IN  \E i, j \in Tiles :
            /\ i < j
            /\ dice(Hold(i)) < 5 /\ dice(nb.grid.hexes[i][2]) = 5
            /\ dice(nb.grid.hexes[j][2]) > dice(Hold(j))

\* The tree returned by build_tree: Tree::new(root, states).
TreeRoot == board
Keys == DOMAIN states

\* The boards one choice away from the keys of `from`.
Successors(from) ==
    UNION {{ConsequenceBoard(states[b][k].consequence) : k \in 1..Len(states[b])} :
            b \in from \cap Keys}

\* The boards reachable from the root through choices of the tree.
RECURSIVE ReachableFrom(_)
ReachableFrom(seen) ==
    LET more == seen \cup Successors(seen)
    IN  IF more = seen THEN seen ELSE ReachableFrom(more)

\* C10: once build_tree(root, move_limit) has returned, the root is a key,
\* the board of every choice of every key is a key, every key is reachable
\* from the root through choices, and each distinct board was inserted once,
\* with the choices the rules engine returns for it.
C10_TreeIsClosedAndReachable ==
    pc = "done" =>
        /\ TreeRoot \in Keys
        /\ \A b \in Keys : \A k \in 1..Len(states[b]) :
                ConsequenceBoard(states[b][k].consequence) \in Keys
        /\ Keys \subseteq ReachableFrom({TreeRoot})
        /\ board_inserts = Cardinality(Keys)
        /\ \A b \in Keys : states[b] = choices_from_board_only_pass_at_end(b, move_limit)

\* C10 witness: a finished tree of several layers in which two different
\* keys lead to the same board, and a final board leads to itself.
C10_Witness ==
    /\ pc = "done"
    /\ Cardinality(Keys) >= 5
    /\ \E b1, b2 \in Keys :
        /\ b1 # b2
        /\ \E k1 \in 1..Len(states[b1]), k2 \in 1..Len(states[b2]) :
            /\ ConsequenceBoard(states[b1][k1].consequence)
                    = ConsequenceBoard(states[b2][k2].consequence)
            /\ ConsequenceBoard(states[b1][k1].consequence) \notin {b1, b2}
    /\ \E b \in Keys : states[b][1].consequence[1] \in {"Winner", "Stalemate"}

\* The choices of the rules engine for a board, as a fresh tree holds them.
EngineChoices(b) == choices_from_board_only_pass_at_end(b, move_limit)

\* C11: the tree returned by start_tree_insert_budgeted has the root as a
\* key with all its legal choices, whatever the budget, 0 included.
C11_BudgetedTreeHasRootLayer ==
    op.name = "start_tree_insert_budgeted" =>
        /\ board \in DOMAIN tree.states
        /\ tree.states[board] = EngineChoices(board)

\* The boards reachable from b by at most n choices of the rules engine.
RECURSIVE ReachWithin(_, _)
ReachWithin(from, n) ==
    IF n = 0 THEN from
    ELSE ReachWithin(
            from \cup UNION {{ConsequenceBoard(EngineChoices(b)[k].consequence) :
                                k \in 1..Len(EngineChoices(b))} : b \in from},
            n - 1)

\* C12: the keys of the tree returned by start_tree_horizon_limited(root,
\* h, move_limit), h >= 1, are exactly the boards reachable from the root by
\* fewer than h choices, each with the choices of the rules engine; with
\* h = 0 the state map is empty.
C12_HorizonTreeKeys ==
    op.name = "start_tree_horizon_limited" =>
        LET h == op.args[2]
        IN  /\ tree.root = board
            /\ h = 0 => DOMAIN tree.states = {}
            /\ h >= 1 => DOMAIN tree.states = ReachWithin({board}, h - 1)
            /\ \A b \in DOMAIN tree.states : tree.states[b] = EngineChoices(b)

\* C12 witness: a tree of three layers cut off by the horizon: a key two
\* choices from the root leads to a board that is no key.
C12_Witness ==
    /\ op.name = "start_tree_horizon_limited"
    /\ op.args[2] = 3
    /\ \E b \in DOMAIN tree.states :
        /\ b \notin ReachWithin({board}, 1)
        /\ \E k \in 1..Len(tree.states[b]) :
            ConsequenceBoard(tree.states[b][k].consequence) \notin DOMAIN tree.states

\* The tree before a grow_tree_horizon_limited call and the states the
\* call computed to append.
Before == op.args[3]
Extra == calculate_consequences(op.args[1], op.args[2], move_limit)

\* C13: Tree::append(extra) removes no key and replaces the choices of no
\* key that was present, their scores included; the keys afterwards are the
\* old keys and the keys of extra, each new key with the choices of extra.
C13_AppendKeepsPresentKeys ==
    op.name = "grow_tree_horizon_limited" =>
        /\ DOMAIN tree.states = DOMAIN Before.states \cup DOMAIN Extra
        /\ \A b \in DOMAIN Before.states : tree.states[b] = Before.states[b]
        /\ \A b \in DOMAIN Extra \ DOMAIN Before.states : tree.states[b] = Extra[b]
        /\ tree.root = Before.root

\* C13 witness: extra brings a new key and a key that was present with a
\* score written on it.
C13_Witness ==
    /\ op.name = "grow_tree_horizon_limited"
    /\ DOMAIN Extra \ DOMAIN Before.states # {}
    /\ \E b \in DOMAIN Extra \cap DOMAIN Before.states :
        /\ Before.states[b][1].score # None
        /\ Extra[b][1].score = None

\* C15: grow_tree_horizon_limited(from, horizon, tree, move_limit) returns
\* Err(from) and leaves the tree unchanged when `from` is no key of the
\* tree; it returns Ok(()) only when `from` is a key.
C15_GrowRejectsUnknownBoard ==
    op.name = "grow_tree_horizon_limited" =>
        /\ op.args[1] \notin DOMAIN Before.states =>
                op.result = Err(op.args[1]) /\ tree = Before
        /\ op.result = Ok(<<>>) => op.args[1] \in DOMAIN Before.states

\* C14: across a Session::advance call the state map of the session only
\* grows: every board that was a key before the call is a key after it.
C14_AdvanceKeepsKeys ==
    (op.name = "advance" /\ ~op.panicked) =>
        DOMAIN op.args[3].states \subseteq DOMAIN tree.states

\* The destination of x is greater than that of y, as real numbers.
DestinationGreater(x, y) ==
    x.destination[1] * y.destination[2] > y.destination[1] * x.destination[2]

\* C16: partial_cmp is a total order on the scores with a destination in
\* [0, 1]: every two scores are comparable, it is reflexive, antisymmetric
\* and transitive, a greater destination compares Greater whatever the
\* distances, and at equal destination the smaller distance compares Greater.
C16_ScoreTotalOrder ==
    op.name = "partial_cmp" =>
        LET s == op.args
            cmp == op.result
            Ge(i, j) == cmp[i][j] \in {"Greater", "Equal"}
        IN  \A i \in 1..3, j \in 1..3, k \in 1..3 :
                /\ cmp[i][j] \in {"Less", "Equal", "Greater"}
                /\ cmp[i][i] = "Equal"
                /\ (cmp[i][j] = "Equal" => s[i] = s[j])
                /\ (cmp[i][j] = "Less" <=> cmp[j][i] = "Greater")
                /\ (Ge(i, j) /\ Ge(j, k) => Ge(i, k))
                /\ (DestinationGreater(s[i], s[j]) => cmp[i][j] = "Greater")
                /\ (s[i].destination = s[j].destination
                        /\ s[i].distance < s[j].distance => cmp[i][j] = "Greater")

\* Three scores compared: two of equal destination and different distance,
\* and a third of a greater destination and the greatest distance.
C16_Witness ==
    /\ op.name = "partial_cmp"
    /\ op.args[1].destination = op.args[2].destination
    /\ op.args[1].distance < op.args[2].distance
    /\ DestinationGreater(op.args[3], op.args[1])
    /\ op.args[3].distance > op.args[2].distance
    /\ op.result[3][1] = "Greater"
    /\ op.result[1][2] = "Greater"

\* The choices of the tree the session holds, by kind of consequence.
TreeKeys == DOMAIN tree.states
ChoicesOf(b) == 1..Len(tree.states[b])
KindOf(b, k) == tree.states[b][k].consequence[1]
BoardOf(b, k) == ConsequenceBoard(tree.states[b][k].consequence)
ScoreOf(b, k) == tree.states[b][k].score

\* C17: after score_tree every choice with a Winner consequence carries
\* the score (1.0, 0) and every choice with a GameOver consequence carries
\* (0.0, 0), whatever lies downstream of it.
C17_WinnerAndGameOverScores ==
    (op.name = "score_tree" /\ ~op.panicked) =>
        \A b \in TreeKeys : \A k \in ChoicesOf(b) :
            /\ KindOf(b, k) = "Winner" => ScoreOf(b, k) = Some(ScoreNew(<<1, 1>>, 0))
            /\ KindOf(b, k) = "GameOver" => ScoreOf(b, k) = Some(ScoreNew(<<0, 1>>, 0))

\* A scored tree with a Winner choice and with a GameOver choice whose
\* board is a key with scored choices of its own.
C17_Witness ==
    /\ op.name = "score_tree"
    /\ ~op.panicked
    /\ \E b \in TreeKeys : \E k \in ChoicesOf(b) :
        /\ KindOf(b, k) = "Winner"
        /\ ScoreOf(b, k) = Some(ScoreNew(<<1, 1>>, 0))
    /\ \E b \in TreeKeys : \E k \in ChoicesOf(b) :
        /\ KindOf(b, k) = "GameOver"
        /\ ScoreOf(b, k) = Some(ScoreNew(<<0, 1>>, 0))
        /\ BoardOf(b, k) \in TreeKeys
        /\ ScoreOf(BoardOf(b, k), 1) # None

\* The tiles of b the player p owns.
TilesOf(b) == 1..Len(b.grid.hexes)
OwnedBy(b, p) == {i \in TilesOf(b) : owner(b.grid.hexes[i][2]) = p}

\* C18: after score_tree every choice with a Stalemate(b) consequence
\* carries the score (f, 0), f the fraction of the tiles of b owned by the
\* acting player: 0.5 for A(1) | B(1), 1/3 for A(1) | B(1) | C(1).
C18_StalemateScores ==
    (op.name = "score_tree" /\ ~op.panicked) =>
        \A b \in TreeKeys : \A k \in ChoicesOf(b) :
            KindOf(b, k) = "Stalemate" =>
                /\ ScoreOf(b, k) # None
                /\ ScoreOf(b, k)[1].distance = 0
                /\ ScoreOf(b, k)[1].destination[1] * Cardinality(TilesOf(BoardOf(b, k)))
                    = Cardinality(OwnedBy(BoardOf(b, k), current(b.players)))
                        * ScoreOf(b, k)[1].destination[2]
                /\ ScoreOf(b, k)[1].destination[2] > 0

\* A scored Stalemate choice on a board of three tiles with three owners:
\* the acting player holds a third.
C18_Witness ==
    /\ op.name = "score_tree"
    /\ ~op.panicked
    /\ \E b \in TreeKeys : \E k \in ChoicesOf(b) :
        /\ KindOf(b, k) = "Stalemate"
        /\ Cardinality(TilesOf(BoardOf(b, k))) = 3
        /\ Cardinality(OwnedBy(BoardOf(b, k), current(b.players))) = 1
        /\ ScoreOf(b, k) = Some(ScoreNew(<<1, 3>>, 0))

\* The keys reachable from the root of the session's tree through choices.
RECURSIVE TreeReachable(_)
TreeReachable(seen) ==
    LET more == seen \cup
            UNION {{BoardOf(b, k) : k \in ChoicesOf(b)} : b \in seen \cap TreeKeys}
    IN  IF more = seen THEN seen \cap TreeKeys ELSE TreeReachable(more)

\* C20: after score_tree on a tree of the expander every choice of every
\* key reachable from the root carries a score.
C20_EveryReachableChoiceScored ==
    (op.name = "score_tree" /\ ~op.panicked) =>
        \A b \in TreeReachable({tree.root}) : \A k \in ChoicesOf(b) :
            ScoreOf(b, k) # None

\* A scored tree cut off by its horizon or budget: a key other than the
\* root with two choices, one of them leading to a board that is no key.
C20_Witness ==
    /\ op.name = "score_tree"
    /\ ~op.panicked
    /\ \E b \in TreeReachable({tree.root}) \ {tree.root} :
        /\ Len(tree.states[b]) >= 2
        /\ \E k \in ChoicesOf(b) : BoardOf(b, k) \notin TreeKeys
        /\ \A k \in ChoicesOf(b) : ScoreOf(b, k) # None

\* The outcomes the players can reach from a board of the session's tree,
\* as <<player, score>>, the distance counting the choices travelled from
\* the board: a Winner or Stalemate choice ends the game where it stands, a
\* GameOver choice is the outcome (0.0, 0) of its player, and a player with
\* no outcome beyond a choice of theirs has (0.0, 0) at that choice.
Farther(outcomes) == {<<x[1], increment_distance(x[2])>> : x \in outcomes}

RECURSIVE OutcomesFrom(_)
OutcomesBeyond(b, k) ==
    LET p == current(b.players)
        sub == OutcomesFrom(BoardOf(b, k))
        fractions == score_board(BoardOf(b, k))
    IN  IF KindOf(b, k) = "Winner" THEN {<<p, ScoreNew(<<1, 1>>, 0)>>}
        ELSE IF KindOf(b, k) = "Stalemate"
        THEN {<<r, fractions[r]>> : r \in DOMAIN fractions}
        ELSE IF KindOf(b, k) = "GameOver" THEN sub \cup {<<p, ScoreNew(<<0, 1>>, 0)>>}
        ELSE IF \E x \in sub : x[1] = p THEN sub
        ELSE sub \cup {<<p, ScoreNew(<<0, 1>>, 0)>>}

OutcomesFrom(b) ==
    IF b \notin TreeKeys THEN {}
    ELSE IF KindOf(b, 1) \in {"Winner", "Stalemate"} THEN OutcomesBeyond(b, 1)
    ELSE Farther(UNION {OutcomesBeyond(b, k) : k \in ChoicesOf(b)})

\* The greatest of a set of scores under the Score order.
Best(scores) ==
    CHOOSE s \in scores : \A t \in scores : partial_cmp(s, t) \in {"Greater", "Equal"}

\* The score C19 gives choice k of board b.
BestOutcomeScore(b, k) ==
    LET p == current(b.players)
        mine == {x[2] : x \in {y \in OutcomesFrom(BoardOf(b, k)) : y[1] = p}}
    IN  IF mine = {} THEN ScoreNew(<<0, 1>>, 0) ELSE increment_distance(Best(mine))

\* C19: after score_tree on a fully expanded tree every Continue or
\* TurnOver choice of player p with board Y carries the best outcome p can
\* reach from Y, one farther per choice travelled, and (0.0, 0) only when p
\* has no outcome downstream of Y.
C19_ChoiceCarriesBestOutcome ==
    (pc = "scored" /\ ~op.panicked) =>
        \A b \in TreeKeys : \A k \in ChoicesOf(b) :
            KindOf(b, k) \in {"Continue", "TurnOver"} =>
                ScoreOf(b, k) = Some(BestOutcomeScore(b, k))

\* A fresh copy of a state map: the same boards and choices, no score.
Fresh(map) ==
    [b \in DOMAIN map |->
        [k \in 1..Len(map[b]) |-> ChoiceNew(map[b][k].action, map[b][k].consequence)]]

\* C21: score_tree, then clear_all_scoring, then score_tree again leaves
\* every choice with the score one score_tree pass on a fresh copy of the
\* tree gives it; the clearing wipes every score the first pass wrote.
C21_ClearThenScoreIsOnePass ==
    /\ op.name = "clear_all_scoring" => tree.states = Fresh(op.args[1].states)
    /\ (pc = "scored again" /\ op.name = "score_tree" /\ ~op.panicked) =>
            tree.states = score(tree.root, Fresh(tree.states)).states

\* A tree of three layers scored a second time after clearing: a board two
\* choices from the root holds a score other than (0.0, 0).
C21_Witness ==
    /\ pc = "scored again"
    /\ op.name = "score_tree"
    /\ ~op.panicked
    /\ \E b \in TreeKeys \ ReachWithin({tree.root}, 1) : \E k \in ChoicesOf(b) :
        /\ ScoreOf(b, k) # None
        /\ ScoreOf(b, k) # Some(ScoreNew(<<0, 1>>, 0))

AdvanceIndex == op.args[1]
TreeBefore == op.args[3]
TurnsBefore == op.args[4]

\* C23: Session::advance(index) with index >= the number of choices of the
\* current state returns an error and leaves the session as it was: no
\* state joins the turn history, the tree and the current state are
\* untouched.
C23_AdvanceOutOfBoundsIsError ==
    (op.name = "advance"
        /\ AdvanceIndex >= Len(current_turn(TurnsBefore).choices)) =>
            /\ ~op.panicked
            /\ op.result[1] = "Err"
            /\ turns = TurnsBefore
            /\ tree = TreeBefore
            /\ current_turn(turns) = current_turn(TurnsBefore)

\* advance called with the index one beyond the last choice, after a turn
\* has been played: the error is returned and two turns are on record.
C23_Witness ==
    /\ op.name = "advance"
    /\ Len(TurnsBefore) = 2
    /\ AdvanceIndex = Len(current_turn(TurnsBefore).choices)
    /\ op.result[1] = "Err"
    /\ turns = TurnsBefore

\* An advance call that played an attack: the state it came from, the
\* choice taken, the rolls, the state returned and the board the session
\* moved to before any forced pass was played for the players.
Attacked == op.name = "advance" /\ ~op.panicked /\ op.result[1] = "Ok"
StateBefore == current_turn(TurnsBefore)
ChoiceTaken == StateBefore.choices[AdvanceIndex + 1]
Rolled == op.args[2]
StateAfter == op.result[2]
BoardAfter ==
    IF StateAfter.traversal # <<>> THEN StateAfter.traversal[1][1] ELSE StateAfter.board

\* C24: on advance of an Attack choice the next board is the consequence
\* board of the choice when the attacker's roll is strictly greater than
\* the defender's; otherwise, a tie included, it is the current board with
\* only the attacking tile made immobile and moved raised by 1: owners,
\* dice, roster and captured dice are unchanged.
C24_NextBoardOfAdvance ==
    Attacked =>
        IF Rolled.attacker_rolled > Rolled.defender_rolled
        THEN BoardAfter = ConsequenceBoard(ChoiceTaken.consequence)
        ELSE LET was == StateBefore.board
                 from == ChoiceTaken.action[2]
             IN  /\ BoardAfter.players = was.players
                 /\ BoardAfter.captured_dice = was.captured_dice
                 /\ BoardAfter.moved = was.moved + 1
                 /\ BoardAfter.grid.shape = was.grid.shape
                 /\ Len(BoardAfter.grid.hexes) = Len(was.grid.hexes)
                 /\ \A i \in 1..Len(was.grid.hexes) :
                        LET old == was.grid.hexes[i]
                            new == BoardAfter.grid.hexes[i]
                        IN  /\ new[1] = old[1]
                            /\ owner(new[2]) = owner(old[2])
                            /\ dice(new[2]) = dice(old[2])
                            /\ mobile(new[2]) = (old[1] # from /\ mobile(old[2]))

\* An attack whose rolls tie: the board stays, the attacking tile, mobile
\* before, is frozen and one more move is counted.
C24_Witness ==
    /\ Attacked
    /\ Rolled.attacker_rolled = Rolled.defender_rolled
    /\ BoardAfter.moved = StateBefore.board.moved + 1
    /\ \E i \in 1..Len(BoardAfter.grid.hexes) :
        /\ BoardAfter.grid.hexes[i][1] = ChoiceTaken.action[2]
        /\ mobile(StateBefore.board.grid.hexes[i][2])
        /\ ~mobile(BoardAfter.grid.hexes[i][2])
        /\ dice(BoardAfter.grid.hexes[i][2]) = Rolled.attacker_dice

\* A traversal in play order: every entry is a board with the lone Pass
\* played for its player, a Pass that ended the turn or the player's game,
\* and the board that Pass leads to is the board of the next entry, the
\* last one leading to the board of the state.
InPlayOrder(state) ==
    \A j \in 1..Len(state.traversal) :
        LET from == state.traversal[j][1]
            played == state.traversal[j][2]
            rules == choices_from_board_only_pass_at_end(from, move_limit)
        IN  /\ played.action = Pass
            /\ played.consequence[1] \in {"TurnOver", "GameOver"}
            /\ Len(rules) = 1
            /\ rules[1].action = played.action
            /\ rules[1].consequence = played.consequence
            /\ ConsequenceBoard(played.consequence)
                = IF j < Len(state.traversal) THEN state.traversal[j + 1][1]
                  ELSE state.board

\* C25: every state the session exposes is a finished game
\* (GameOverWinner, GameOverStalemate) or PlayOn with at least one choice,
\* every choice an Attack; a lone Pass that ends a turn or a player's game
\* is played for the player and recorded in the traversal in play order,
\* and no Attack is ever played for the player.
C25_ExposedStates ==
    \A i \in 1..Len(turns) :
        /\ \/ turns[i].game[1] \in {"GameOverWinner", "GameOverStalemate"}
           \/ /\ turns[i].game[1] = "PlayOn"
              /\ Len(turns[i].choices) >= 1
              /\ \A k \in 1..Len(turns[i].choices) : IsAttack(turns[i].choices[k].action)
        /\ InPlayOrder(turns[i])

\* An advance reached a state where two passes were played for the players
\* and a lone Attack is presented.
C25_Witness ==
    /\ Attacked
    /\ StateAfter = current_turn(turns)
    /\ StateAfter.game[1] = "PlayOn"
    /\ Len(StateAfter.traversal) >= 2
    /\ Len(StateAfter.choices) = 1
    /\ IsAttack(StateAfter.choices[1].action)

\* The playing players of a roster, in order, and a sequence without its
\* element at position k.
PlayingOf(ps) == [i \in 1..ps.count |-> ps.playing[i]]
Without(seq, k) == [i \in 1..(Len(seq) - 1) |-> IF i < k THEN seq[i] ELSE seq[i + 1]]
RosterBefore == op.args[1]
RosterAfter == op.result
Follower(ps) == PlayingOf(ps)[((ps.current + 1) % ps.count) + 1]

\* C26: next() makes the following playing player current, wrapping from
\* the last to the first; remove_current() removes the current player,
\* lowers the count by one, keeps the order of the others and makes the
\* follower of the removed player current (wrapping); with one playing
\* player it returns the same roster; after any sequence of the two the
\* current index is below the count and current() is a playing player.
C26_RosterOperations ==
    /\ op.name = "next" =>
        /\ current(RosterAfter) = Follower(RosterBefore)
        /\ PlayingOf(RosterAfter) = PlayingOf(RosterBefore)
    /\ (op.name = "remove_current" /\ RosterBefore.count = 1) =>
        RosterAfter = RosterBefore
    /\ (op.name = "remove_current" /\ RosterBefore.count > 1) =>
        /\ RosterAfter.count = RosterBefore.count - 1
        /\ PlayingOf(RosterAfter)
            = Without(PlayingOf(RosterBefore), RosterBefore.current + 1)
        /\ current(RosterAfter) = Follower(RosterBefore)
    /\ op.name \in {"Players::new", "next", "remove_current"} =>
        /\ RosterAfter.current < RosterAfter.count
        /\ RosterAfter.count >= 1
        /\ \E i \in 1..RosterAfter.count : current(RosterAfter) = PlayingOf(RosterAfter)[i]
        /\ current(RosterAfter) \in 1..MAX_PLAYERS

\* The last of three or more playing players is removed: the first one
\* becomes current.
C26_Witness ==
    /\ op.name = "remove_current"
    /\ RosterBefore.count >= 3
    /\ RosterBefore.current = RosterBefore.count - 1
    /\ RosterAfter.current = 0
    /\ current(RosterAfter) = PlayingOf(RosterBefore)[1]

\* C27: for every player number 1 to 8, every dice count 0 to 5 and both
\* values of the mobile flag, the byte built by u8::new gives back exactly
\* that owner, that dice count and that flag.
C27_HoldRoundTrip ==
    op.name = "u8::new" =>
        /\ op.result.owner = op.args[1]
        /\ op.result.dice = op.args[2]
        /\ op.result.mobile = op.args[3]

\* The zero constraint of cube coordinates.
ZeroSum(c) == c[1] + c[2] + c[3] = 0

\* C28: Cube::construct(x, y, z) returns the cube when x + y + z = 0 and
\* the zero-constraint error otherwise; every cube from an axial
\* conversion, from adding a direction, from neighbours and
\* three_neighbours and from the generation of a rectangular grid has
\* x + y + z = 0.
C28_CubesSumToZero ==
    /\ op.name = "Cube::construct" =>
        IF op.args[1] + op.args[2] + op.args[3] = 0
        THEN op.result = Ok(op.args)
        ELSE op.result = Err(FailsZeroConstraint(op.args[1], op.args[2], op.args[3]))
    /\ op.name = "Axial::cube" =>
        /\ op.result[1] = "Ok"
        /\ ZeroSum(op.result[2])
        /\ op.result[2][1] = op.args[1]
        /\ op.result[2][3] = op.args[2]
    /\ op.name = "add" => ZeroSum(op.result)
    /\ op.name \in {"neighbours", "three_neighbours"} =>
        \A i \in 1..Len(op.result) : ZeroSum(op.result[i])
    /\ op.name = "generate_with" =>
        \A i \in 1..Len(op.result.hexes) : ZeroSum(op.result.hexes[i][1])

\* Cube::construct refused three coordinates whose sum is not 0.
C28_Witness ==
    /\ op.name = "Cube::construct"
    /\ op.args[1] + op.args[2] + op.args[3] # 0
    /\ op.result[1] = "Err"

\* The set of the elements of a sequence, the cube one step from c, and
\* the scans of three_neighbours over a grid that go from the tile at
\* position i to the tile at position j.
Elements(seq) == {seq[i] : i \in 1..Len(seq)}
Step(c, x, y, z) == <<c[1] + x, c[2] + y, c[3] + z>>
Lists(a, b) == b \in Elements(three_neighbours(a))
Visits(grid, i, j) ==
    {k \in 1..3 : three_neighbours(grid.hexes[i][1])[k] = grid.hexes[j][1]}

\* C29: neighbours(c) is the six adjacent cubes in the order UpRight,
\* Right, DownRight, DownLeft, Left, UpLeft and three_neighbours(c) is
\* Right, DownRight, DownLeft; of two adjacent cubes exactly one lists the
\* other among its three_neighbours, so a scan of three_neighbours over
\* the tiles of a grid visits every adjacent pair of tiles exactly once.
C29_NeighbourOrder ==
    /\ op.name = "neighbours" =>
        LET c == op.args[1]
        IN  /\ op.result = << Step(c, 1, 0, -1), Step(c, 1, -1, 0), Step(c, 0, -1, 1),
                              Step(c, -1, 0, 1), Step(c, -1, 1, 0), Step(c, 0, 1, -1) >>
            /\ \A i \in 1..6 : Lists(c, op.result[i]) # Lists(op.result[i], c)
    /\ op.name = "three_neighbours" =>
        LET c == op.args[1]
        IN  op.result = << Step(c, 1, -1, 0), Step(c, 0, -1, 1), Step(c, -1, 0, 1) >>
    /\ op.name = "generate_with" =>
        \A i \in 1..Len(op.result.hexes), j \in 1..Len(op.result.hexes) :
            (i < j /\ Adjacent(op.result.hexes[i][1], op.result.hexes[j][1])) =>
                Cardinality(Visits(op.result, i, j))
                    + Cardinality(Visits(op.result, j, i)) = 1

\* A grid of three rows was generated: it has pairs of tiles adjacent to
\* the right, down to the right and down to the left.
C29_Witness ==
    /\ op.name = "generate_with"
    /\ \A k \in 1..3 :
        \E i \in 1..Len(op.result.hexes), j \in 1..Len(op.result.hexes) :
            k \in Visits(op.result, i, j)

\* The grid generated, its shape asked for, and the tile at column c of
\* row r (both 0-based) in row-major order.
Generated == op.result
Columns == op.args[1]
Rows == op.args[2]
TileAt(r, c) == Generated.hexes[r * Columns + c + 1]

\* C30: Rectangular generation gives columns x rows tiles with pairwise
\* distinct coordinates, stored row by row: row 0 is (0,0,0), (1,-1,0),
\* (2,-2,0), ...; every odd row is the previous row shifted DownRight and
\* every even later row is the previous row shifted DownLeft; fetch of a
\* generated coordinate returns the value stored for it; with 0 columns or
\* 0 rows the grid is empty.
C30_RectangularGeneration ==
    op.name = "generate_with" =>
        /\ Len(Generated.hexes) = Columns * Rows
        /\ \A i \in 1..Len(Generated.hexes), j \in 1..Len(Generated.hexes) :
            i # j => Generated.hexes[i][1] # Generated.hexes[j][1]
        /\ (Columns = 0 \/ Rows = 0) => Generated.hexes = <<>>
        /\ \A r \in 0..(Rows - 1), c \in 0..(Columns - 1) :
            /\ r = 0 => TileAt(r, c)[1] = <<c, -c, 0>>
            /\ (r > 0 /\ r % 2 = 1) => TileAt(r, c)[1] = Step(TileAt(r - 1, c)[1], 0, -1, 1)
            /\ (r > 0 /\ r % 2 = 0) => TileAt(r, c)[1] = Step(TileAt(r - 1, c)[1], -1, 0, 1)
            /\ TileAt(r, c)[2] = r * Columns + c + 1
            /\ fetch(Generated, TileAt(r, c)[1]) = TileAt(r, c)[2]

\* A grid of three rows and two columns or more was generated: its third
\* row starts below the first tile of row 0.
C30_Witness ==
    /\ op.name = "generate_with"
    /\ Rows >= 3
    /\ Columns >= 2
    /\ TileAt(2, 0)[1] = <<-1, -1, 2>>
    /\ TileAt(1, 1)[1] = <<1, -2, 1>>

\* canned_2x1_start01: A(2) | B(3), two players, A to move.
canned_2x1_start01 ==
    BoardNew(PlayersNew(2),
             generate_with(2, 1, <<u8_new(1, 2, TRUE), u8_new(2, 3, TRUE)>>), 0, 0)

\* The tree of canned_2x1_start01 has been built and scored.
Scored2x1 == pc = "scored" /\ ~op.panicked /\ board = canned_2x1_start01

\* The lone choice of a key b: a Pass or an Attack of the given kind, with
\* the given score.
LoneChoice(b, attack, kind, scored) ==
    /\ b \in TreeKeys
    /\ Len(tree.states[b]) = 1
    /\ IsAttack(tree.states[b][1].action) = attack
    /\ KindOf(b, 1) = kind
    /\ ScoreOf(b, 1) = Some(scored)

\* C31, as the specification states it: from A(2) | B(3) the root's only
\* choice is Pass -> GameOver with score (0.0, 0) for A, and the board it
\* leads to has the only choice Pass -> Winner with score (1.0, 0) for B.
C31_ForcedLossChain ==
    Scored2x1 =>
        /\ LoneChoice(board, FALSE, "GameOver", ScoreNew(<<0, 1>>, 0))
        /\ LoneChoice(BoardOf(board, 1), FALSE, "Winner", ScoreNew(<<1, 1>>, 0))

\* C31, as the code has it: A holds a tile and cannot attack, so the root's
\* only choice is Pass -> TurnOver with score (0.0, 0) for A; B's only
\* choice is then the Attack on A's tile, scored (1.0, 1), and the board it
\* leads to has the only choice Pass -> Winner with score (1.0, 0) for B.
C31_ForcedLossChainOfThree ==
    Scored2x1 =>
        /\ all_legal_attacks_from(board.grid, current(board.players)) = <<>>
        /\ LoneChoice(board, FALSE, "TurnOver", ScoreNew(<<0, 1>>, 0))
        /\ current(BoardOf(board, 1).players) = 2
        /\ LoneChoice(BoardOf(board, 1), TRUE, "Continue", ScoreNew(<<1, 1>>, 1))
        /\ LoneChoice(BoardOf(BoardOf(board, 1), 1), FALSE, "Winner", ScoreNew(<<1, 1>>, 0))
        /\ current(BoardOf(BoardOf(board, 1), 1).players) = 2

\* The tree of A(2) | B(3) is built and scored, and B's attack is in it.
C31_Witness ==
    /\ Scored2x1
    /\ KindOf(BoardOf(board, 1), 1) = "Continue"
    /\ ScoreOf(board, 1) = Some(ScoreNew(<<0, 1>>, 0))

\* The sum of f over 1..n.
RECURSIVE SumTo(_, _)
SumTo(f, n) == IF n = 0 THEN 0 ELSE f[n] + SumTo(f, n - 1)

\* The tiles of a reinforce call before and after, the dice each tile of
\* the player could still take, and the dice each tile was given.
GridBefore == op.args[1].hexes
GridAfter == op.result.hexes
Reinforced == op.args[2]
RoomAt == [i \in 1..Len(GridBefore) |->
            IF owner(GridBefore[i][2]) = Reinforced THEN 5 - dice(GridBefore[i][2]) ELSE 0]
GivenAt == [i \in 1..Len(GridBefore) |-> dice(GridAfter[i][2]) - dice(GridBefore[i][2])]

C33_FrozenTilesBelongToTheTurn ==
    /\ \A i \in Tiles : ~mobile(Hold(i)) => owner(Hold(i)) = Cur
    /\ \A k \in 1..Len(choices) :
        IsAttack(choices[k].action) => mobile(fetch(board.grid, choices[k].action[2]))

\* A tile is frozen by a lost attack and its owner still has an attack to
\* choose from another tile.
C33_Witness ==
    /\ \E i \in Tiles : ~mobile(Hold(i)) /\ owner(Hold(i)) = Cur /\ dice(Hold(i)) > 1
    /\ board.moved >= 1
    /\ \E k \in 1..Len(choices) : IsAttack(choices[k].action)

\* The dice in play on a board: those on the grid and those captured.
DiceInPlay(b) == TotalDice(b) + b.captured_dice

\* C34: along the attacks of one turn captured_dice plus the dice on the
\* grid stays constant: each Attack choice moves exactly the defender's
\* dice from the grid into captured_dice, raises moved by 1 and keeps the
\* roster; from one board of a turn to the next (attack won or lost) the
\* dice in play are the same and moved is one higher, so captured_dice
\* never exceeds the dice on the grid at the start of the turn.
C34_CapturedDiceAreConserved ==
    /\ [](\A k \in 1..Len(choices) :
            IsAttack(choices[k].action) =>
                LET after == ConsequenceBoard(choices[k].consequence)
                IN  /\ choices[k].action[5] = dice(fetch(board.grid, choices[k].action[3]))
                    /\ TotalDice(after) = TotalDice(board) - choices[k].action[5]
                    /\ after.captured_dice = board.captured_dice + choices[k].action[5]
                    /\ after.moved = board.moved + 1
                    /\ after.players = board.players)
    /\ [][(pc = "play" /\ board'.players = board.players) =>
            /\ DiceInPlay(board') = DiceInPlay(board)
            /\ board'.moved = board.moved + 1]_vars

\* A turn in which two attacks were won: dice of both defenders are held
\* as captured.
C34_Witness ==
    /\ pc = "play"
    /\ board.moved >= 2
    /\ board.captured_dice >= 2
    /\ DiceInPlay(board) > TotalDice(board)

\* The players of a roster still playing, those recorded as out, and the
\* players the roster was made with.
PlayingSet(ps) == {ps.playing[i] : i \in 1..ps.count}
OutSet(ps) == {ps.out[i] : i \in 1..MAX_PLAYERS} \ {0}
OriginalPlayers(ps) == 1..ps.players

\* C35: after any sequence of next() and remove_current() every removed
\* player is recorded in the out set and none is still playing: the playing
\* players and the out set are disjoint and together are exactly the
\* roster's original players.
C35_RemovedPlayersAreOut ==
    op.name \in {"Players::new", "next", "remove_current"} =>
        /\ PlayingSet(RosterAfter) \cap OutSet(RosterAfter) = {}
        /\ PlayingSet(RosterAfter) \cup OutSet(RosterAfter) = OriginalPlayers(RosterAfter)

\* C36: while score_tree scores a tree the expander built from a board whose
\* tiles all belong to players of the roster, the assertion of the GameOver
\* branch never fails: the player a GameOver choice removes is off the roster
\* of the board the choice leads to and holds none of its tiles, so the
\* scores coming back from that board have no entry for that player, and the
\* pass over the whole tree ends without a panic.
C36_GameOverAssertionNeverFails ==
    /\ pc = "done" =>
            \A b \in Keys : \A k \in 1..Len(states[b]) :
                states[b][k].consequence[1] = "GameOver" =>
                    LET player == current(b.players)
                        cb == ConsequenceBoard(states[b][k].consequence)
                    IN  /\ player \notin PlayingSet(cb.players)
                        /\ \A i \in 1..Len(cb.grid.hexes) :
                                owner(cb.grid.hexes[i][2]) # player
                        /\ player \notin DOMAIN score(cb, states).scores
    /\ pc = "scored" => ~op.panicked

\* A three-player tree was scored: a GameOver choice in it carries (0.0, 0)
\* and the game goes on below it with a choice of another player.
C36_Witness ==
    /\ pc = "scored"
    /\ ~op.panicked
    /\ \E b \in TreeKeys :
            /\ KindOf(b, 1) = "GameOver"
            /\ ScoreOf(b, 1) = Some(ScoreNew(<<0, 1>>, 0))
            /\ BoardOf(b, 1) \in TreeKeys
            /\ \E k \in ChoicesOf(BoardOf(b, 1)) : IsAttack(tree.states[BoardOf(b, 1)][k].action)

\* C37: after score_tree any two Continue or TurnOver choices made by the
\* same player that lead to the same board carry the same score, and no such
\* choice carries (0.0, 0) while its player has an outcome downstream of the
\* board it leads to: a board scored earlier along another path does not
\* empty the score of a choice that reaches it later.
C37_SameBoardSameScore ==
    (pc = "scored" /\ ~op.panicked) =>
        /\ \A b1, b2 \in TreeKeys : \A k1 \in ChoicesOf(b1) : \A k2 \in ChoicesOf(b2) :
                (/\ KindOf(b1, k1) \in {"Continue", "TurnOver"}
                 /\ KindOf(b2, k2) \in {"Continue", "TurnOver"}
                 /\ current(b1.players) = current(b2.players)
                 /\ BoardOf(b1, k1) = BoardOf(b2, k2)) =>
                    ScoreOf(b1, k1) = ScoreOf(b2, k2)
        /\ \A b \in TreeKeys : \A k \in ChoicesOf(b) :
                (/\ KindOf(b, k) \in {"Continue", "TurnOver"}
                 /\ ScoreOf(b, k) = Some(ScoreNew(<<0, 1>>, 0))) =>
                    \A y \in OutcomesFrom(BoardOf(b, k)) : y[1] # current(b.players)

\* C38: Session::advance never aborts: whatever the state of the session,
\* a terminal GameOverWinner or GameOverStalemate state whose stored choice
\* is a Pass included, and whatever the index, the call returns the next
\* state or an error value.
C38_AdvanceNeverAborts ==
    op.name = "advance" =>
        /\ ~op.panicked
        /\ op.result[1] \in {"Ok", "Err"}

\* The boards a key leads to through its Continue, TurnOver and GameOver
\* choices: the choices the expander and the scorer follow.
Followed(b) ==
    {ConsequenceBoard(states[b][k].consequence) :
        k \in {j \in 1..Len(states[b]) :
                states[b][j].consequence[1] \in {"Continue", "TurnOver", "GameOver"}}}

\* The boards of `left` that lie on a cycle or lead to one: the boards with
\* no followed choice into `left` are taken away until none is found.
RECURSIVE OnCycles(_)
OnCycles(left) ==
    LET ends == {b \in left : Followed(b) \cap left = {}}
    IN  IF ends = {} THEN left ELSE OnCycles(left \ ends)

\* A run of n turns without an attack starts at b: each board of the run is
\* left by a Pass -> TurnOver with no move made.
RECURSIVE QuietRun(_, _)
QuietRun(b, n) ==
    \/ n = 0
    \/ /\ b \in Keys
       /\ b.moved = 0
       /\ states[b][1].consequence[1] = "TurnOver"
       /\ QuietRun(ConsequenceBoard(states[b][1].consequence), n - 1)

AttemptsWithinLimit ==
    /\ \A i \in 1..Len(turns) :
            turns[i].game[1] = "PlayOn" => turns[i].board.moved < move_limit
    /\ Attacked =>
            /\ BoardAfter.moved = StateBefore.board.moved + 1
            /\ BoardAfter.moved <= move_limit
            /\ BoardAfter.players = StateBefore.board.players
    /\ \A i \in 1..Len(turns) : \A j \in i..Len(turns) :
            (\A k \in (i + 1)..j : turns[k].traversal = <<>>) =>
                /\ j - i <= move_limit
                /\ turns[j].game[1] = "PlayOn" => j - i < move_limit

\* The attempt returned at the move limit.
AtMoveLimit == Attacked /\ BoardAfter.moved = move_limit

\* The session played a Pass -> TurnOver for the player on the board the
\* attempt led to.
TurnPassed ==
    /\ StateAfter.traversal # <<>>
    /\ StateAfter.traversal[1][1] = BoardAfter
    /\ StateAfter.traversal[1][2].action = Pass
    /\ StateAfter.traversal[1][2].consequence[1] = "TurnOver"

====
